---- MODULE Spec2Model ----
(***************************************************************************)
(* PayloadState of the update engine (src/unnamed/part_000, lines 1-878):  *)
(* the per-update attempt state, its persistence in prefs, the clocks it   *)
(* reads and the metrics it sends.                                         *)
(*                                                                         *)
(* Strings are sequences of one-character strings, so that formatting and  *)
(* prefix tests are computed and not assumed.  Instants and durations are  *)
(* integers in seconds (base::Time internal values scaled from             *)
(* microseconds); the null Time is 0.  Every counter, byte count and       *)
(* instant of the model stays within TLC's 32-bit integers, where the      *)
(* uint32_t, uint64_t and int conversions of the source change no value.   *)
(***************************************************************************)
EXTENDS Integers, Sequences, FiniteSets, TLC

VARIABLES
    ps,               \* the members of the PayloadState object
    prefs,            \* the persistent store: key -> Absent, Unreadable or an integer/string
    uma,              \* samples handed to SendToUMA by the latest operation
    wall,             \* clock()->GetWallclockTime() and Time::Now()
    mono,             \* clock()->GetMonotonicTime()
    system_rebooted,  \* system_state_->system_rebooted()
    initialized,      \* Initialize() has run on this object
    last,             \* the latest public operation, its argument and the members before it
    steps,            \* how many steps were taken since Initialize()
    wall_set_back     \* the wall clock was set back since the latest Initialize()

vars == <<ps, prefs, uma, wall, mono, system_rebooted, initialized, last, steps,
          wall_set_back>>

----------------------------------------------------------------------------
(* Bounds of the model *)

\* the operations and clock changes followed after Initialize()
MaxSteps == 4

\* the steps within which a process may start over a store written by others
MaxForeignWrites == 2

----------------------------------------------------------------------------
(* Program constants *)

kDurationSlack == 600
kMaxBackoffDays == 16
kMaxBackoffFuzzMinutes == 12 * 60
kMaxShifts == (4 * 8) - 2
kNumBytesInOneMiB == 1048576
kNumDownloadSources == 2
kSecondsPerDay == 86400
kSecondsPerMinute == 60

kDownloadSourceHttpsServer == "HttpsServer"
kDownloadSourceHttpServer == "HttpServer"
kDownloadSourceNone == "kNumDownloadSources"
DownloadSources == {kDownloadSourceHttpsServer, kDownloadSourceHttpServer}

kPrefsCurrentResponseSignature == "current-response-signature"
kPrefsPayloadAttemptNumber == "payload-attempt-number"
kPrefsCurrentUrlIndex == "current-url-index"
kPrefsCurrentUrlFailureCount == "current-url-failure-count"
kPrefsUrlSwitchCount == "url-switch-count"
kPrefsBackoffExpiryTime == "backoff-expiry-time"
kPrefsUpdateTimestampStart == "update-timestamp-start"
kPrefsUpdateDurationUptime == "update-duration-uptime"
kPrefsNumReboots == "num-reboots"
kPrefsCurrentBytesDownloaded == "current-bytes-downloaded"
kPrefsTotalBytesDownloaded == "total-bytes-downloaded"

\* prefix + "-from-" + utils::ToString(source)
GetPrefsKey(prefix, source) ==
    CASE prefix = kPrefsCurrentBytesDownloaded /\ source = kDownloadSourceHttpsServer
           -> "current-bytes-downloaded-from-HttpsServer"
      [] prefix = kPrefsCurrentBytesDownloaded /\ source = kDownloadSourceHttpServer
           -> "current-bytes-downloaded-from-HttpServer"
      [] prefix = kPrefsTotalBytesDownloaded /\ source = kDownloadSourceHttpsServer
           -> "total-bytes-downloaded-from-HttpsServer"
      [] prefix = kPrefsTotalBytesDownloaded /\ source = kDownloadSourceHttpServer
           -> "total-bytes-downloaded-from-HttpServer"

PrefsKeys ==
    { kPrefsCurrentResponseSignature, kPrefsPayloadAttemptNumber,
      kPrefsCurrentUrlIndex, kPrefsCurrentUrlFailureCount, kPrefsUrlSwitchCount,
      kPrefsBackoffExpiryTime, kPrefsUpdateTimestampStart,
      kPrefsUpdateDurationUptime, kPrefsNumReboots }
    \cup { GetPrefsKey(kPrefsCurrentBytesDownloaded, s) : s \in DownloadSources }
    \cup { GetPrefsKey(kPrefsTotalBytesDownloaded, s) : s \in DownloadSources }

\* a prefs entry: ex is Exists(key), ok is whether GetInt64/GetString succeed
Absent == [ex |-> FALSE, ok |-> FALSE, v |-> 0]
AbsentString == [ex |-> FALSE, ok |-> FALSE, v |-> <<>>]
Unreadable == [ex |-> TRUE, ok |-> FALSE, v |-> 0]
Stored(value) == [ex |-> TRUE, ok |-> TRUE, v |-> value]

Min(a, b) == IF a < b THEN a ELSE b

RECURSIVE Pow2(_)
Pow2(n) == IF n = 0 THEN 1 ELSE 2 * Pow2(n - 1)

----------------------------------------------------------------------------
(* Strings *)

UpperCase ==
    <<"A", "B", "C", "D", "E", "F", "G", "H", "I", "J", "K", "L", "M",
      "N", "O", "P", "Q", "R", "S", "T", "U", "V", "W", "X", "Y", "Z">>
LowerCase ==
    <<"a", "b", "c", "d", "e", "f", "g", "h", "i", "j", "k", "l", "m",
      "n", "o", "p", "q", "r", "s", "t", "u", "v", "w", "x", "y", "z">>

ToLowerASCII(c) ==
    IF \E i \in 1..26 : UpperCase[i] = c
      THEN LowerCase[CHOOSE i \in 1..26 : UpperCase[i] = c]
      ELSE c

\* base StartsWithASCII(str, search, case_sensitive); search is lower case
StartsWithASCII(str, search, case_sensitive) ==
    /\ Len(str) >= Len(search)
    /\ \A i \in 1..Len(search) :
          IF case_sensitive THEN str[i] = search[i]
                            ELSE ToLowerASCII(str[i]) = search[i]

DigitChars == <<"0", "1", "2", "3", "4", "5", "6", "7", "8", "9">>

\* printf %d / %llu of a non-negative number
RECURSIVE FormatDecimal(_)
FormatDecimal(n) ==
    IF n < 10 THEN <<DigitChars[n + 1]>>
              ELSE FormatDecimal(n \div 10) \o <<DigitChars[(n % 10) + 1]>>

\* printf %d of a bool
FormatBool(b) == IF b THEN <<"1">> ELSE <<"0">>

StrNumURLs ==
    <<"N", "u", "m", "U", "R", "L", "s", " ", "=", " ">>
StrUrl ==
    <<"U", "r", "l">>
StrEq ==
    <<" ", "=", " ">>
StrNL ==
    <<"\n">>
StrPayloadSize ==
    <<"P", "a", "y", "l", "o", "a", "d", " ", "S", "i", "z", "e", " ", "=", " ">>
StrPayloadHash ==
    <<"P", "a", "y", "l", "o", "a", "d", " ", "S", "h", "a", "2", "5", "6", " ", "H", "a", "s", "h", " ", "=", " ">>
StrMetadataSize ==
    <<"M", "e", "t", "a", "d", "a", "t", "a", " ", "S", "i", "z", "e", " ", "=", " ">>
StrMetadataSignature ==
    <<"M", "e", "t", "a", "d", "a", "t", "a", " ", "S", "i", "g", "n", "a", "t", "u", "r", "e", " ", "=", " ">>
StrIsDelta ==
    <<"I", "s", " ", "D", "e", "l", "t", "a", " ", "P", "a", "y", "l", "o", "a", "d", " ", "=", " ">>
StrMaxFailure ==
    <<"M", "a", "x", " ", "F", "a", "i", "l", "u", "r", "e", " ", "C", "o", "u", "n", "t", " ", "P", "e", "r", " ", "U", "r", "l", " ", "=", " ">>
StrDisableBackoff ==
    <<"D", "i", "s", "a", "b", "l", "e", " ", "P", "a", "y", "l", "o", "a", "d", " ", "B", "a", "c", "k", "o", "f", "f", " ", "=", " ">>
StrHttps ==
    <<"h", "t", "t", "p", "s", ":", "/", "/">>
StrHttp ==
    <<"h", "t", "t", "p", ":", "/", "/">>

----------------------------------------------------------------------------
(* Responses *)

UrlA ==
    <<"h", "t", "t", "p", "s", ":", "/", "/", "a">>
UrlB ==
    <<"H", "T", "T", "P", ":", "/", "/", "b">>
UrlC ==
    <<"f", "t", "p", ":", "/", "/", "c">>

OmahaResponse(urls, delta, maxfail, nobackoff) ==
    [ payload_urls |-> urls, size |-> 1, hash |-> <<"h">>, metadata_size |-> 1,
      metadata_signature |-> <<"s">>, is_delta_payload |-> delta,
      max_failure_count_per_url |-> maxfail,
      disable_payload_backoff |-> nobackoff ]

\* the members of a default-constructed OmahaResponse
DefaultResponse ==
    [ payload_urls |-> <<>>, size |-> 0, hash |-> <<>>, metadata_size |-> 0,
      metadata_signature |-> <<>>, is_delta_payload |-> FALSE,
      max_failure_count_per_url |-> 0, disable_payload_backoff |-> FALSE ]

ResponseTwoUrls == OmahaResponse(<<UrlA, UrlB>>, FALSE, 2, FALSE)
ResponseOneUrl == OmahaResponse(<<UrlC>>, FALSE, 1, FALSE)
ResponseNoUrls == OmahaResponse(<<>>, FALSE, 1, FALSE)
ResponseDelta == OmahaResponse(<<UrlB>>, TRUE, 1, FALSE)
ResponseNoBackoff == OmahaResponse(<<UrlA>>, FALSE, 2, TRUE)

Responses ==
    { ResponseTwoUrls, ResponseOneUrl, ResponseNoUrls, ResponseDelta,
      ResponseNoBackoff }

----------------------------------------------------------------------------
(* The object and its store.  The operators below take and return          *)
(* s = [o |-> members, p |-> prefs, uma |-> samples sent], so that a       *)
(* method body is the composition of the calls it makes, in order.         *)

\* PayloadState::PayloadState().  num_reboots_ and current_download_source_
\* are not set by the constructor; Initialize() writes both before any read.
Constructed ==
    [ response_ |-> DefaultResponse,
      response_signature_ |-> <<>>,
      payload_attempt_number_ |-> 0,
      url_index_ |-> 0,
      url_failure_count_ |-> 0,
      url_switch_count_ |-> 0,
      current_download_source_ |-> kDownloadSourceNone,
      num_reboots_ |-> 0,
      backoff_expiry_time_ |-> 0,
      update_timestamp_start_ |-> 0,
      update_timestamp_end_ |-> 0,
      update_duration_uptime_ |-> 0,
      update_duration_uptime_timestamp_ |-> 0,
      update_duration_current_ |-> 0,
      current_bytes_downloaded_ |-> [src \in DownloadSources |-> 0],
      total_bytes_downloaded_ |-> [src \in DownloadSources |-> 0] ]

EmptyPrefs ==
    [k \in PrefsKeys |->
        IF k = kPrefsCurrentResponseSignature THEN AbsentString ELSE Absent]

GetNumUrls(s) == Len(s.o.response_.payload_urls)

\* prefs_->Exists(key) && prefs_->GetInt64(key, &v)
Readable(s, key) == s.p[key].ex /\ s.p[key].ok

\* GetPersistedValue() without the check for a negative value
GetPersistedValueKeepsNegative(s, key) ==
    IF ~s.p[key].ex THEN 0
    ELSE IF ~s.p[key].ok THEN 0
    ELSE s.p[key].v

GetPersistedValue(s, key) ==
    IF ~s.p[key].ex THEN 0
    ELSE IF ~s.p[key].ok THEN 0
    ELSE IF s.p[key].v < 0 THEN 0
    ELSE s.p[key].v

CalculateResponseSignature(s) ==
    LET r == s.o.response_
        UrlLine(i) == StrUrl \o FormatDecimal(i - 1) \o StrEq
                        \o r.payload_urls[i] \o StrNL
        Urls[i \in 0..Len(r.payload_urls)] ==
            IF i = 0 THEN <<>> ELSE Urls[i - 1] \o UrlLine(i)
    IN  StrNumURLs \o FormatDecimal(Len(r.payload_urls)) \o StrNL
        \o Urls[Len(r.payload_urls)]
        \o StrPayloadSize \o FormatDecimal(r.size) \o StrNL
        \o StrPayloadHash \o r.hash \o StrNL
        \o StrMetadataSize \o FormatDecimal(r.metadata_size) \o StrNL
        \o StrMetadataSignature \o r.metadata_signature \o StrNL
        \o StrIsDelta \o FormatBool(r.is_delta_payload) \o StrNL
        \o StrMaxFailure \o FormatDecimal(r.max_failure_count_per_url) \o StrNL
        \o StrDisableBackoff \o FormatBool(r.disable_payload_backoff) \o StrNL

SetResponseSignature(s, response_signature) ==
    [s EXCEPT !.o.response_signature_ = response_signature,
              !.p[kPrefsCurrentResponseSignature] = Stored(response_signature)]

LoadResponseSignature(s) ==
    IF Readable(s, kPrefsCurrentResponseSignature)
      THEN SetResponseSignature(s, s.p[kPrefsCurrentResponseSignature].v)
      ELSE s

SetPayloadAttemptNumber(s, payload_attempt_number) ==
    [s EXCEPT !.o.payload_attempt_number_ = payload_attempt_number,
              !.p[kPrefsPayloadAttemptNumber] = Stored(payload_attempt_number)]

LoadPayloadAttemptNumber(s) ==
    SetPayloadAttemptNumber(s, GetPersistedValue(s, kPrefsPayloadAttemptNumber))

\* UpdateCurrentDownloadSource() comparing the scheme case-sensitively
UpdateCurrentDownloadSourceCaseSensitive(s) ==
    LET urls == s.o.response_.payload_urls
        current_url == urls[s.o.url_index_ + 1]
        source ==
            IF s.o.url_index_ < Len(urls)
              THEN IF StartsWithASCII(current_url, StrHttps, TRUE)
                     THEN kDownloadSourceHttpsServer
                   ELSE IF StartsWithASCII(current_url, StrHttp, TRUE)
                     THEN kDownloadSourceHttpServer
                   ELSE kDownloadSourceNone
              ELSE kDownloadSourceNone
    IN  [s EXCEPT !.o.current_download_source_ = source]

UpdateCurrentDownloadSource(s) ==
    LET urls == s.o.response_.payload_urls
        current_url == urls[s.o.url_index_ + 1]
        source ==
            IF s.o.url_index_ < Len(urls)
              THEN IF StartsWithASCII(current_url, StrHttps, FALSE)
                     THEN kDownloadSourceHttpsServer
                   ELSE IF StartsWithASCII(current_url, StrHttp, FALSE)
                     THEN kDownloadSourceHttpServer
                   ELSE kDownloadSourceNone
              ELSE kDownloadSourceNone
    IN  [s EXCEPT !.o.current_download_source_ = source]

SetUrlIndex(s, url_index) ==
    UpdateCurrentDownloadSource(
        [s EXCEPT !.o.url_index_ = url_index,
                  !.p[kPrefsCurrentUrlIndex] = Stored(url_index)])

LoadUrlIndex(s) == SetUrlIndex(s, GetPersistedValue(s, kPrefsCurrentUrlIndex))

\* SetUrlSwitchCount() writing to prefs the count the member had before
SetUrlSwitchCountStoresPrevious(s, url_switch_count) ==
    [s EXCEPT !.o.url_switch_count_ = url_switch_count,
              !.p[kPrefsUrlSwitchCount] = Stored(s.o.url_switch_count_)]

SetUrlSwitchCount(s, url_switch_count) ==
    [s EXCEPT !.o.url_switch_count_ = url_switch_count,
              !.p[kPrefsUrlSwitchCount] = Stored(url_switch_count)]

LoadUrlSwitchCount(s) ==
    SetUrlSwitchCount(s, GetPersistedValue(s, kPrefsUrlSwitchCount))

SetUrlFailureCount(s, url_failure_count) ==
    [s EXCEPT !.o.url_failure_count_ = url_failure_count,
              !.p[kPrefsCurrentUrlFailureCount] = Stored(url_failure_count)]


\* LoadUrlFailureCount() reading the key of the URL index
LoadUrlFailureCountWrongKey(s) ==
    SetUrlFailureCount(s, GetPersistedValue(s, kPrefsCurrentUrlIndex))

LoadUrlFailureCount(s) ==
    SetUrlFailureCount(s, GetPersistedValue(s, kPrefsCurrentUrlFailureCount))

SetBackoffExpiryTime(s, new_time) ==
    [s EXCEPT !.o.backoff_expiry_time_ = new_time,
              !.p[kPrefsBackoffExpiryTime] = Stored(new_time)]

\* LoadBackoffExpiryTime() rejecting an expiry of exactly kMaxBackoffDays
LoadBackoffExpiryTimeInclusive(s) ==
    IF ~Readable(s, kPrefsBackoffExpiryTime) THEN s
    ELSE LET stored_time == s.p[kPrefsBackoffExpiryTime].v
         IN  IF stored_time >= wall + kMaxBackoffDays * kSecondsPerDay
               THEN SetBackoffExpiryTime(s, 0)
               ELSE SetBackoffExpiryTime(s, stored_time)

LoadBackoffExpiryTime(s) ==
    IF ~Readable(s, kPrefsBackoffExpiryTime) THEN s
    ELSE LET stored_time == s.p[kPrefsBackoffExpiryTime].v
         IN  IF stored_time > wall + kMaxBackoffDays * kSecondsPerDay
               THEN SetBackoffExpiryTime(s, 0)
               ELSE SetBackoffExpiryTime(s, stored_time)

GetUpdateDuration(s) ==
    LET end_time == IF s.o.update_timestamp_end_ = 0
                      THEN wall ELSE s.o.update_timestamp_end_
    IN  end_time - s.o.update_timestamp_start_

SetUpdateTimestampStart(s, value) ==
    [s EXCEPT !.o.update_timestamp_start_ = value,
              !.p[kPrefsUpdateTimestampStart] = Stored(value)]

\* LoadUpdateTimestampStart() rejecting a start at exactly kDurationSlack ahead
LoadUpdateTimestampStartInclusive(s) ==
    LET now == wall
        stored_time == IF Readable(s, kPrefsUpdateTimestampStart)
                         THEN s.p[kPrefsUpdateTimestampStart].v ELSE now
        duration_according_to_stored_time == now - stored_time
    IN  IF duration_according_to_stored_time <= -kDurationSlack
          THEN SetUpdateTimestampStart(s, now)
          ELSE SetUpdateTimestampStart(s, stored_time)

LoadUpdateTimestampStart(s) ==
    LET now == wall
        stored_time == IF Readable(s, kPrefsUpdateTimestampStart)
                         THEN s.p[kPrefsUpdateTimestampStart].v ELSE now
        duration_according_to_stored_time == now - stored_time
    IN  IF duration_according_to_stored_time < -kDurationSlack
          THEN SetUpdateTimestampStart(s, now)
          ELSE SetUpdateTimestampStart(s, stored_time)

SetUpdateTimestampEnd(s, value) ==
    [s EXCEPT !.o.update_timestamp_end_ = value]

SetUpdateDurationUptimeExtended(s, value, timestamp) ==
    [s EXCEPT !.o.update_duration_uptime_ = value,
              !.o.update_duration_uptime_timestamp_ = timestamp,
              !.p[kPrefsUpdateDurationUptime] = Stored(value)]

SetUpdateDurationUptime(s, value) ==
    SetUpdateDurationUptimeExtended(s, value, mono)


\* LoadUpdateDurationUptime() without the sanity check
LoadUpdateDurationUptimeUnchecked(s) ==
    SetUpdateDurationUptime(s,
        IF Readable(s, kPrefsUpdateDurationUptime)
          THEN s.p[kPrefsUpdateDurationUptime].v ELSE 0)

LoadUpdateDurationUptime(s) ==
    LET stored_delta == IF Readable(s, kPrefsUpdateDurationUptime)
                          THEN s.p[kPrefsUpdateDurationUptime].v ELSE 0
        diff == GetUpdateDuration(s) - stored_delta
    IN  IF diff < -kDurationSlack
          THEN SetUpdateDurationUptime(s, s.o.update_duration_current_)
          ELSE SetUpdateDurationUptime(s, stored_delta)

\* CalculateUpdateDurationUptime() that leaves the timestamp where it was
CalculateUpdateDurationUptimeKeepsTimestamp(s) ==
    LET now == mono
        uptime_since_last_update == now - s.o.update_duration_uptime_timestamp_
        new_uptime == s.o.update_duration_uptime_ + uptime_since_last_update
    IN  SetUpdateDurationUptimeExtended(s, new_uptime,
                                        s.o.update_duration_uptime_timestamp_)

CalculateUpdateDurationUptime(s) ==
    LET now == mono
        uptime_since_last_update == now - s.o.update_duration_uptime_timestamp_
        new_uptime == s.o.update_duration_uptime_ + uptime_since_last_update
    IN  SetUpdateDurationUptimeExtended(s, new_uptime, now)

SetNumReboots(s, num_reboots) ==
    [s EXCEPT !.o.num_reboots_ = num_reboots,
              !.p[kPrefsNumReboots] = Stored(num_reboots)]

LoadNumReboots(s) == SetNumReboots(s, GetPersistedValue(s, kPrefsNumReboots))

UpdateNumReboots(s) ==
    IF ~system_rebooted THEN s ELSE SetNumReboots(s, s.o.num_reboots_ + 1)

SetCurrentBytesDownloaded(s, source, current_bytes_downloaded) ==
    IF source \notin DownloadSources THEN s
    ELSE [s EXCEPT !.o.current_bytes_downloaded_[source] = current_bytes_downloaded,
                   !.p[GetPrefsKey(kPrefsCurrentBytesDownloaded, source)] = Stored(current_bytes_downloaded)]

LoadCurrentBytesDownloaded(s, source) ==
    SetCurrentBytesDownloaded(s, source,
        GetPersistedValue(s, GetPrefsKey(kPrefsCurrentBytesDownloaded, source)))

SetTotalBytesDownloaded(s, source, total_bytes_downloaded) ==
    IF source \notin DownloadSources THEN s
    ELSE [s EXCEPT !.o.total_bytes_downloaded_[source] = total_bytes_downloaded,
                   !.p[GetPrefsKey(kPrefsTotalBytesDownloaded, source)] = Stored(total_bytes_downloaded)]

LoadTotalBytesDownloaded(s, source) ==
    SetTotalBytesDownloaded(s, source,
        GetPersistedValue(s, GetPrefsKey(kPrefsTotalBytesDownloaded, source)))

\* the bytes counted for a source; nothing is kept for kNumDownloadSources
GetCurrentBytesDownloaded(s, source) ==
    IF source \in DownloadSources THEN s.o.current_bytes_downloaded_[source] ELSE 0

GetTotalBytesDownloaded(s, source) ==
    IF source \in DownloadSources THEN s.o.total_bytes_downloaded_[source] ELSE 0

\* UpdateBytesDownloaded() adding to the current counter only
UpdateBytesDownloadedCurrentOnly(s, count) ==
    SetCurrentBytesDownloaded(s, s.o.current_download_source_,
        GetCurrentBytesDownloaded(s, s.o.current_download_source_) + count)

UpdateBytesDownloaded(s, count) ==
    LET src == s.o.current_download_source_
        s1 == SetCurrentBytesDownloaded(s, src,
                  GetCurrentBytesDownloaded(s, src) + count)
    IN  SetTotalBytesDownloaded(s1, src, GetTotalBytesDownloaded(s1, src) + count)

\* ResetDownloadSourcesOnNewUpdate() clearing the total counters as well
ResetDownloadSourcesAndTotals(s) ==
    LET s1 == SetTotalBytesDownloaded(
                  SetCurrentBytesDownloaded(s, kDownloadSourceHttpsServer, 0),
                  kDownloadSourceHttpsServer, 0)
    IN  SetTotalBytesDownloaded(
            SetCurrentBytesDownloaded(s1, kDownloadSourceHttpServer, 0),
            kDownloadSourceHttpServer, 0)

ResetDownloadSourcesOnNewUpdate(s) ==
    LET s1 == SetCurrentBytesDownloaded(s, kDownloadSourceHttpsServer, 0)
    IN  SetCurrentBytesDownloaded(s1, kDownloadSourceHttpServer, 0)

----------------------------------------------------------------------------
(* Backoff, URL advancement and reset *)

\* utils::FuzzInt(0, kMaxBackoffFuzzMinutes): the values tried out of the
\* range [0 - range/2, 0 + range - range/2]
FuzzValues ==
    { -(kMaxBackoffFuzzMinutes \div 2), 0,
      kMaxBackoffFuzzMinutes - (kMaxBackoffFuzzMinutes \div 2) }

\* UpdateBackoffExpiryTime() shifting by the attempt number, not by one less
UpdateBackoffExpiryTimeOffByOne(s, fuzz_minutes) ==
    IF s.o.response_.disable_payload_backoff THEN SetBackoffExpiryTime(s, 0)
    ELSE IF s.o.payload_attempt_number_ = 0 THEN SetBackoffExpiryTime(s, 0)
    ELSE LET power == Min(s.o.payload_attempt_number_, kMaxShifts)
             num_days == Min(Pow2(power), kMaxBackoffDays)
             next_backoff_interval == num_days * kSecondsPerDay
                                        + fuzz_minutes * kSecondsPerMinute
         IN  SetBackoffExpiryTime(s, wall + next_backoff_interval)

UpdateBackoffExpiryTime(s, fuzz_minutes) ==
    IF s.o.response_.disable_payload_backoff THEN SetBackoffExpiryTime(s, 0)
    ELSE IF s.o.payload_attempt_number_ = 0 THEN SetBackoffExpiryTime(s, 0)
    ELSE LET power == Min(s.o.payload_attempt_number_ - 1, kMaxShifts)
             num_days == Min(Pow2(power), kMaxBackoffDays)
             next_backoff_interval == num_days * kSecondsPerDay
                                        + fuzz_minutes * kSecondsPerMinute
         IN  SetBackoffExpiryTime(s, wall + next_backoff_interval)

\* IncrementPayloadAttemptNumber() counting attempts of delta payloads too
IncrementPayloadAttemptNumberForDelta(s, fuzz_minutes) ==
    UpdateBackoffExpiryTime(
        SetPayloadAttemptNumber(s, s.o.payload_attempt_number_ + 1),
        fuzz_minutes)

\* IncrementPayloadAttemptNumber() leaving the backoff expiry as it was
IncrementPayloadAttemptNumberKeepsExpiry(s, fuzz_minutes) ==
    IF s.o.response_.is_delta_payload THEN s
    ELSE SetPayloadAttemptNumber(s, s.o.payload_attempt_number_ + 1)

IncrementPayloadAttemptNumber(s, fuzz_minutes) ==
    IF s.o.response_.is_delta_payload THEN s
    ELSE UpdateBackoffExpiryTime(
             SetPayloadAttemptNumber(s, s.o.payload_attempt_number_ + 1),
             fuzz_minutes)


\* IncrementUrlIndex() counting a switch also when there is one URL only
IncrementUrlIndexAlwaysSwitches(s, fuzz_minutes) ==
    LET next_url_index == s.o.url_index_ + 1
        s1 == IF next_url_index < GetNumUrls(s)
                THEN SetUrlIndex(s, next_url_index)
                ELSE IncrementPayloadAttemptNumber(SetUrlIndex(s, 0), fuzz_minutes)
    IN  SetUrlFailureCount(SetUrlSwitchCount(s1, s1.o.url_switch_count_ + 1), 0)

\* IncrementUrlIndex() without the wrap to the first URL
IncrementUrlIndexNoWrap(s, fuzz_minutes) ==
    LET s1 == SetUrlIndex(s, s.o.url_index_ + 1)
        s2 == IF GetNumUrls(s1) > 1
                THEN SetUrlSwitchCount(s1, s1.o.url_switch_count_ + 1)
                ELSE s1
    IN  SetUrlFailureCount(s2, 0)

IncrementUrlIndex(s, fuzz_minutes) ==
    LET next_url_index == s.o.url_index_ + 1
        s1 == IF next_url_index < GetNumUrls(s)
                THEN SetUrlIndex(s, next_url_index)
                ELSE IncrementPayloadAttemptNumber(SetUrlIndex(s, 0), fuzz_minutes)
        s2 == IF GetNumUrls(s1) > 1
                THEN SetUrlSwitchCount(s1, s1.o.url_switch_count_ + 1)
                ELSE s1
    IN  SetUrlFailureCount(s2, 0)

\* IncrementFailureCount() advancing the URL one failure later
IncrementFailureCountLate(s, fuzz_minutes) ==
    LET next_url_failure_count == s.o.url_failure_count_ + 1
    IN  IF next_url_failure_count <= s.o.response_.max_failure_count_per_url
          THEN SetUrlFailureCount(s, next_url_failure_count)
          ELSE IncrementUrlIndex(s, fuzz_minutes)

IncrementFailureCount(s, fuzz_minutes) ==
    LET next_url_failure_count == s.o.url_failure_count_ + 1
    IN  IF next_url_failure_count < s.o.response_.max_failure_count_per_url
          THEN SetUrlFailureCount(s, next_url_failure_count)
          ELSE IncrementUrlIndex(s, fuzz_minutes)


\* ResetPersistedState() without the reset of the URL switch count
ResetPersistedStateKeepsSwitchCount(s) ==
    LET s1 == SetPayloadAttemptNumber(s, 0)
        s2 == SetUrlIndex(s1, 0)
        s3 == SetUrlFailureCount(s2, 0)
        s5 == UpdateBackoffExpiryTime(s3, 0)
        s6 == SetUpdateTimestampStart(s5, wall)
        s7 == SetUpdateTimestampEnd(s6, 0)
        s8 == SetUpdateDurationUptime(s7, 0)
    IN  ResetDownloadSourcesOnNewUpdate(s8)

\* ResetPersistedState() computing the backoff expiry before it clears the
\* payload attempt number
ResetPersistedStateExpiryFirst(s) ==
    LET s1 == UpdateBackoffExpiryTime(s, 0)
        s2 == SetPayloadAttemptNumber(s1, 0)
        s3 == SetUrlIndex(s2, 0)
        s4 == SetUrlFailureCount(s3, 0)
        s5 == SetUrlSwitchCount(s4, 0)
        s6 == SetUpdateTimestampStart(s5, wall)
        s7 == SetUpdateTimestampEnd(s6, 0)
        s8 == SetUpdateDurationUptime(s7, 0)
    IN  ResetDownloadSourcesOnNewUpdate(s8)

ResetPersistedState(s) ==
    LET s1 == SetPayloadAttemptNumber(s, 0)
        s2 == SetUrlIndex(s1, 0)
        s3 == SetUrlFailureCount(s2, 0)
        s4 == SetUrlSwitchCount(s3, 0)
        s5 == UpdateBackoffExpiryTime(s4, 0)
        s6 == SetUpdateTimestampStart(s5, wall)
        s7 == SetUpdateTimestampEnd(s6, 0)
        s8 == SetUpdateDurationUptime(s7, 0)
    IN  ResetDownloadSourcesOnNewUpdate(s8)

----------------------------------------------------------------------------
(* Metrics *)

TruncDiv(a, b) == IF a >= 0 THEN a \div b ELSE -((-a) \div b)

\* TimeDelta::InMinutes()
InMinutes(delta) == TruncDiv(delta, kSecondsPerMinute)

SendToUMA(s, metric, sample, min, max) ==
    [s EXCEPT !.uma = Append(@, [metric |-> metric, sample |-> sample,
                                 min |-> min, max |-> max])]

\* the enumerators of DownloadSource below kNumDownloadSources, in order
SourceOrder == <<kDownloadSourceHttpsServer, kDownloadSourceHttpServer>>

kMaxMiBs == 10240

\* a uint64_t as four digits of 16 bits, the most significant first; n is an
\* integer of either sign below 2^31 in size, taken modulo 2^64
Uint64(n) ==
    LET b == Pow2(16)
        k == (0 - n) - 1
    IN  IF n >= 0 THEN <<0, 0, n \div b, n % b>>
        ELSE <<b - 1, b - 1, (b - 1) - (k \div b), (b - 1) - (k % b)>>

\* x / d on uint64_t, by long division; d is below 2^15
DivUint64(x, d) ==
    LET b == Pow2(16)
        t1 == x[1]
        t2 == (t1 % d) * b + x[2]
        t3 == (t2 % d) * b + x[3]
        t4 == (t3 % d) * b + x[4]
    IN  <<t1 \div d, t2 \div d, t3 \div d, t4 \div d>>

\* the conversion of a uint64_t to int: its low 32 bits in two's complement
Uint64ToInt(x) ==
    LET b == Pow2(16)
    IN  IF x[3] >= b \div 2 THEN (x[3] - b) * b + x[4] ELSE x[3] * b + x[4]

\* ReportBytesDownloadedMetrics() reading each counter after clearing it
ReportBytesDownloadedMetricsAfterDrain(s) ==
    LET Body(acc, i) ==
            LET source == SourceOrder[i + 1]
                a1 == SetCurrentBytesDownloaded(acc.s, source, 0)
                mbs == GetCurrentBytesDownloaded(a1, source) \div kNumBytesInOneMiB
                a2 == SendToUMA(a1,
                          <<"Installer.SuccessfulMBsDownloadedFrom", source>>,
                          mbs, 0, kMaxMiBs)
                a3 == SetTotalBytesDownloaded(a2, source, 0)
                tmbs == GetTotalBytesDownloaded(a3, source) \div kNumBytesInOneMiB
                a4 == SendToUMA(a3,
                          <<"Installer.TotalMBsDownloadedFrom", source>>,
                          tmbs, 0, kMaxMiBs)
            IN  [s |-> a4]
        Loop[i \in 0..kNumDownloadSources] ==
            IF i = 0 THEN [s |-> s] ELSE Body(Loop[i - 1], i - 1)
    IN  SendToUMA(Loop[kNumDownloadSources].s,
                  <<"Installer.DownloadSourcesUsed">>, 0,
                  0, Pow2(kNumDownloadSources))

ReportBytesDownloadedMetrics(s) ==
    LET Body(acc, i) ==
            LET source == SourceOrder[i + 1]
                mbs == GetCurrentBytesDownloaded(acc.s, source) \div kNumBytesInOneMiB
                used == IF mbs # 0 /\ (acc.used \div Pow2(i)) % 2 = 0
                          THEN acc.used + Pow2(i) ELSE acc.used
                a1 == SendToUMA(acc.s,
                          <<"Installer.SuccessfulMBsDownloadedFrom", source>>,
                          mbs, 0, kMaxMiBs)
                a2 == SetCurrentBytesDownloaded(a1, source, 0)
                tmbs == GetTotalBytesDownloaded(a2, source) \div kNumBytesInOneMiB
                a3 == SendToUMA(a2,
                          <<"Installer.TotalMBsDownloadedFrom", source>>,
                          tmbs, 0, kMaxMiBs)
                a4 == SetTotalBytesDownloaded(a3, source, 0)
            IN  [s |-> a4, used |-> used,
                 successful_mbs |-> acc.successful_mbs + mbs,
                 total_mbs |-> acc.total_mbs + tmbs]
        Loop[i \in 0..kNumDownloadSources] ==
            IF i = 0
              THEN [s |-> s, used |-> 0, successful_mbs |-> 0, total_mbs |-> 0]
              ELSE Body(Loop[i - 1], i - 1)
        done == Loop[kNumDownloadSources]
        b1 == SendToUMA(done.s, <<"Installer.DownloadSourcesUsed">>, done.used,
                        0, Pow2(kNumDownloadSources))
        \* (total_mbs - successful_mbs) * 100 / successful_mbs on uint64_t,
        \* assigned to an int
        percent_overhead ==
            Uint64ToInt(DivUint64(
                Uint64((done.total_mbs - done.successful_mbs) * 100),
                done.successful_mbs))
    IN  IF done.successful_mbs # 0
          THEN SendToUMA(b1, <<"Installer.DownloadOverheadPercentage">>,
                         percent_overhead, 0, 1000)
          ELSE b1

\* ReportUpdateUrlSwitchesMetric() clearing the count it has sent, as
\* ReportRebootMetrics() does
ReportUpdateUrlSwitchesMetricAndClear(s) ==
    SetUrlSwitchCount(
        SendToUMA(s, <<"Installer.UpdateURLSwitches">>, s.o.url_switch_count_, 0, 100),
        0)

ReportUpdateUrlSwitchesMetric(s) ==
    SendToUMA(s, <<"Installer.UpdateURLSwitches">>, s.o.url_switch_count_, 0, 100)

ReportRebootMetrics(s) ==
    SetNumReboots(
        SendToUMA(s, <<"Installer.UpdateNumReboots">>, s.o.num_reboots_, 0, 50),
        0)

\* prefs_->Delete(key)
Delete(s, key) == [s EXCEPT !.p[key] = Absent]

\* ReportDurationMetrics() that leaves the two keys in the store
ReportDurationMetricsKeepsKeys(s) ==
    LET duration == GetUpdateDuration(s)
        duration_uptime == s.o.update_duration_uptime_
        s1 == SendToUMA(s, <<"Installer.UpdateDurationMinutes">>,
                        InMinutes(duration), 1, 365 * 24 * 60)
    IN  SendToUMA(s1, <<"Installer.UpdateDurationUptimeMinutes">>,
                  InMinutes(duration_uptime), 1, 30 * 24 * 60)

ReportDurationMetrics(s) ==
    LET duration == GetUpdateDuration(s)
        duration_uptime == s.o.update_duration_uptime_
        s1 == SendToUMA(s, <<"Installer.UpdateDurationMinutes">>,
                        InMinutes(duration), 1, 365 * 24 * 60)
        s2 == SendToUMA(s1, <<"Installer.UpdateDurationUptimeMinutes">>,
                        InMinutes(duration_uptime), 1, 30 * 24 * 60)
    IN  Delete(Delete(s2, kPrefsUpdateTimestampStart), kPrefsUpdateDurationUptime)

----------------------------------------------------------------------------
(* Public operations, as functions of s *)

DoInitialize(s) ==
    LET s1 == LoadResponseSignature(s)
        s2 == LoadPayloadAttemptNumber(s1)
        s3 == LoadUrlIndex(s2)
        s4 == LoadUrlFailureCount(s3)
        s5 == LoadUrlSwitchCount(s4)
        s6 == LoadBackoffExpiryTime(s5)
        s7 == LoadUpdateTimestampStart(s6)
        s8 == LoadUpdateDurationUptime(s7)
        s9 == LoadTotalBytesDownloaded(
                  LoadCurrentBytesDownloaded(s8, kDownloadSourceHttpsServer),
                  kDownloadSourceHttpsServer)
        s10 == LoadTotalBytesDownloaded(
                   LoadCurrentBytesDownloaded(s9, kDownloadSourceHttpServer),
                   kDownloadSourceHttpServer)
    IN  LoadNumReboots(s10)


\* SetResponse() without the check of the URL index against the response
DoSetResponseTrustsUrlIndex(s, omaha_response) ==
    LET s1 == [s EXCEPT !.o.response_ = omaha_response]
        new_response_signature == CalculateResponseSignature(s1)
    IN  IF s1.o.response_signature_ # new_response_signature
          THEN ResetPersistedState(
                   SetResponseSignature(s1, new_response_signature))
          ELSE UpdateCurrentDownloadSource(s1)

\* SetResponse() resetting the state whether or not the response has changed
DoSetResponseResetsAlways(s, omaha_response) ==
    LET s1 == [s EXCEPT !.o.response_ = omaha_response]
    IN  ResetPersistedState(
            SetResponseSignature(s1, CalculateResponseSignature(s1)))

DoSetResponse(s, omaha_response) ==
    LET s1 == [s EXCEPT !.o.response_ = omaha_response]
        new_response_signature == CalculateResponseSignature(s1)
        has_response_changed ==
            s1.o.response_signature_ # new_response_signature
    IN  IF has_response_changed
          THEN ResetPersistedState(
                   SetResponseSignature(s1, new_response_signature))
        ELSE IF s1.o.url_index_ >= GetNumUrls(s1)
          THEN ResetPersistedState(s1)
        ELSE UpdateCurrentDownloadSource(s1)

DoDownloadComplete(s, fuzz_minutes) ==
    IncrementPayloadAttemptNumber(s, fuzz_minutes)


\* DownloadProgress() without the reset of the URL failure count
DoDownloadProgressKeepsFailureCount(s, count) ==
    IF count = 0 THEN s
    ELSE UpdateBytesDownloaded(CalculateUpdateDurationUptime(s), count)

DoDownloadProgress(s, count) ==
    IF count = 0 THEN s
    ELSE LET s1 == UpdateBytesDownloaded(CalculateUpdateDurationUptime(s), count)
         IN  IF s1.o.url_failure_count_ = 0 THEN s1
             ELSE SetUrlFailureCount(s1, 0)

DoUpdateResumed(s) == UpdateNumReboots(s)

DoUpdateRestarted(s) == SetNumReboots(ResetDownloadSourcesOnNewUpdate(s), 0)

DoUpdateSucceeded(s) ==
    LET s1 == CalculateUpdateDurationUptime(s)
        s2 == SetUpdateTimestampEnd(s1, wall)
        s3 == ReportBytesDownloadedMetrics(s2)
        s4 == ReportUpdateUrlSwitchesMetric(s3)
        s5 == ReportRebootMetrics(s4)
    IN  ReportDurationMetrics(s5)

PayloadCorruptionErrors ==
    { "kErrorCodePayloadHashMismatchError",
      "kErrorCodePayloadSizeMismatchError",
      "kErrorCodeDownloadPayloadVerificationError",
      "kErrorCodeDownloadPayloadPubKeyVerificationError",
      "kErrorCodeSignedDeltaPayloadExpectedError",
      "kErrorCodeDownloadInvalidMetadataMagicString",
      "kErrorCodeDownloadSignatureMissingInManifest",
      "kErrorCodeDownloadManifestParseError",
      "kErrorCodeDownloadMetadataSignatureError",
      "kErrorCodeDownloadMetadataSignatureVerificationError",
      "kErrorCodeDownloadMetadataSignatureMismatch",
      "kErrorCodeDownloadOperationHashVerificationError",
      "kErrorCodeDownloadOperationExecutionError",
      "kErrorCodeDownloadOperationHashMismatch",
      "kErrorCodeDownloadInvalidMetadataSize",
      "kErrorCodeDownloadInvalidMetadataSignature",
      "kErrorCodeDownloadOperationHashMissingError",
      "kErrorCodeDownloadMetadataSignatureMissingError" }

TransientNetworkErrors ==
    { "kErrorCodeError",
      "kErrorCodeDownloadTransferError",
      "kErrorCodeDownloadWriteError",
      "kErrorCodeDownloadStateInitializationError",
      "kErrorCodeOmahaErrorInHTTPResponse" }

NonUrlFaultErrors ==
    { "kErrorCodeOmahaRequestError",
      "kErrorCodeOmahaResponseHandlerError",
      "kErrorCodePostinstallRunnerError",
      "kErrorCodeFilesystemCopierError",
      "kErrorCodeInstallDeviceOpenError",
      "kErrorCodeKernelDeviceOpenError",
      "kErrorCodeDownloadNewPartitionInfoError",
      "kErrorCodeNewRootfsVerificationError",
      "kErrorCodeNewKernelVerificationError",
      "kErrorCodePostinstallBootedFromFirmwareB",
      "kErrorCodeOmahaRequestEmptyResponseError",
      "kErrorCodeOmahaRequestXMLParseError",
      "kErrorCodeOmahaResponseInvalid",
      "kErrorCodeOmahaUpdateIgnoredPerPolicy",
      "kErrorCodeOmahaUpdateDeferredPerPolicy",
      "kErrorCodeOmahaUpdateDeferredForBackoff",
      "kErrorCodePostinstallPowerwashError",
      "kErrorCodeUpdateCanceledByChannelChange" }

UnexpectedErrors ==
    { "kErrorCodeSuccess",
      "kErrorCodeSetBootableFlagError",
      "kErrorCodeUmaReportedMax",
      "kErrorCodeOmahaRequestHTTPResponseBase",
      "kErrorCodeDevModeFlag",
      "kErrorCodeResumedFlag",
      "kErrorCodeTestImageFlag",
      "kErrorCodeTestOmahaUrlFlag",
      "kErrorCodeSpecialFlags" }

ErrorCodes ==
    PayloadCorruptionErrors \cup TransientNetworkErrors
        \cup NonUrlFaultErrors \cup UnexpectedErrors

\* the case group of the switch that a code belongs to
ErrorClass(base_error) ==
    IF base_error \in PayloadCorruptionErrors THEN "PayloadCorruption"
    ELSE IF base_error \in TransientNetworkErrors THEN "TransientNetwork"
    ELSE IF base_error \in NonUrlFaultErrors THEN "NonUrlFault"
    ELSE "Unexpected"

\* one code of each case group
SampleErrors ==
    { "kErrorCodePayloadHashMismatchError", "kErrorCodeDownloadTransferError",
      "kErrorCodeOmahaRequestError", "kErrorCodeSuccess" }

\* UpdateFailed() counting a cancellation by channel change against the URL
DoUpdateFailedCountsChannelChange(s, base_error, fuzz_minutes) ==
    IF GetNumUrls(s) = 0 THEN s
    ELSE IF base_error \in PayloadCorruptionErrors
      THEN IncrementUrlIndex(s, fuzz_minutes)
    ELSE IF base_error \in TransientNetworkErrors
                \cup {"kErrorCodeUpdateCanceledByChannelChange"}
      THEN IncrementFailureCount(s, fuzz_minutes)
    ELSE s

\* UpdateFailed() without the early return for a response without URLs
DoUpdateFailedUngated(s, base_error, fuzz_minutes) ==
    IF base_error \in PayloadCorruptionErrors
      THEN IncrementUrlIndex(s, fuzz_minutes)
    ELSE IF base_error \in TransientNetworkErrors
      THEN IncrementFailureCount(s, fuzz_minutes)
    ELSE s

\* UpdateFailed() with the last case label of the first group left out of it
DoUpdateFailedMissesOneCode(s, base_error, fuzz_minutes) ==
    IF GetNumUrls(s) = 0 THEN s
    ELSE IF base_error \in PayloadCorruptionErrors
                \ {"kErrorCodeDownloadMetadataSignatureMissingError"}
      THEN IncrementUrlIndex(s, fuzz_minutes)
    ELSE IF base_error \in TransientNetworkErrors
      THEN IncrementFailureCount(s, fuzz_minutes)
    ELSE s

\* base_error is the code the switch sees, after utils::GetBaseErrorCode
DoUpdateFailed(s, base_error, fuzz_minutes) ==
    IF GetNumUrls(s) = 0 THEN s
    ELSE IF base_error \in PayloadCorruptionErrors
      THEN IncrementUrlIndex(s, fuzz_minutes)
    ELSE IF base_error \in TransientNetworkErrors
      THEN IncrementFailureCount(s, fuzz_minutes)
    ELSE s


\* ShouldBackoffDownload() with the expiry compared by <= instead of <
ShouldBackoffDownloadStrict(s, IsOfficialBuild) ==
    IF s.o.response_.disable_payload_backoff THEN FALSE
    ELSE IF s.o.response_.is_delta_payload THEN FALSE
    ELSE IF ~IsOfficialBuild THEN FALSE
    ELSE IF s.o.backoff_expiry_time_ = 0 THEN FALSE
    ELSE IF s.o.backoff_expiry_time_ <= wall THEN FALSE
    ELSE TRUE

ShouldBackoffDownload(s, IsOfficialBuild) ==
    IF s.o.response_.disable_payload_backoff THEN FALSE
    ELSE IF s.o.response_.is_delta_payload THEN FALSE
    ELSE IF ~IsOfficialBuild THEN FALSE
    ELSE IF s.o.backoff_expiry_time_ = 0 THEN FALSE
    ELSE IF s.o.backoff_expiry_time_ < wall THEN FALSE
    ELSE TRUE

----------------------------------------------------------------------------
(* The environment: persisted stores found at start-up, and the clocks *)

\* the wall-clock reading when the process first starts
Epoch == 20 * kSecondsPerDay

SignatureOf(r) == CalculateResponseSignature([o |-> [response_ |-> r]])

\* a store found at start-up: the signature entry and the integer entries
\* that are present
StoredState(signature, entries) ==
    [k \in PrefsKeys |->
        IF k = kPrefsCurrentResponseSignature THEN signature
        ELSE IF k \in DOMAIN entries THEN entries[k]
        ELSE Absent]

\* an update in progress, as the operations below leave it
StoredInProgress ==
    (kPrefsPayloadAttemptNumber :> Stored(1)) @@ (kPrefsCurrentUrlIndex :> Stored(1))
       @@ (kPrefsCurrentUrlFailureCount :> Stored(1)) @@ (kPrefsUrlSwitchCount :> Stored(1))
       @@ (kPrefsBackoffExpiryTime :> Stored(Epoch + kSecondsPerDay))
       @@ (kPrefsUpdateTimestampStart :> Stored(Epoch - kSecondsPerDay))
       @@ (kPrefsUpdateDurationUptime :> Stored(kSecondsPerMinute))

\* the stores the process may find when it first starts: none, one that the
\* operations left, and ones that an interrupted write or a foreign writer left
StoredStates ==
    { EmptyPrefs,
      StoredState(Stored(SignatureOf(ResponseTwoUrls)), StoredInProgress),
      StoredState(Stored(SignatureOf(ResponseTwoUrls)),
                  (kPrefsCurrentUrlIndex :> Stored(5))),
      StoredState(Stored(SignatureOf(ResponseTwoUrls)),
                  (kPrefsCurrentUrlFailureCount :> Stored(7))),
      StoredState(AbsentString,
                  (kPrefsBackoffExpiryTime :> Stored(Epoch + kSecondsPerDay))),
      StoredState(Stored(SignatureOf(ResponseNoBackoff)),
                  (kPrefsBackoffExpiryTime :> Stored(Epoch + kSecondsPerDay))),
      StoredState(AbsentString,
                  (kPrefsPayloadAttemptNumber :> Stored(-1))
                     @@ (kPrefsNumReboots :> Unreadable)),
      StoredState(AbsentString,
                  (kPrefsUpdateTimestampStart :> Stored(Epoch + kDurationSlack + 1))),
      StoredState(AbsentString,
                  (kPrefsUpdateTimestampStart :> Stored(Epoch - kSecondsPerDay))
                     @@ (kPrefsUpdateDurationUptime :>
                            Stored(kSecondsPerDay + kDurationSlack + 1))) }

NoOperation ==
    [op |-> "none", response |-> DefaultResponse, count |-> 0, error |-> "none",
     changed |-> FALSE, pre |-> Constructed]

Operation(name) == [NoOperation EXCEPT !.op = name, !.pre = ps]

Init ==
    /\ ps = Constructed
    /\ prefs \in StoredStates
    /\ uma = <<>>
    /\ wall = Epoch
    /\ mono = 0
    /\ system_rebooted = FALSE
    /\ initialized = FALSE
    /\ last = NoOperation
    /\ steps = 0
    /\ wall_set_back = FALSE

\* the object, the store and an empty batch of samples, as the operators take them
Now == [o |-> ps, p |-> prefs, uma |-> <<>>]

Becomes(s) ==
    /\ ps' = s.o
    /\ prefs' = s.p
    /\ uma' = s.uma

----------------------------------------------------------------------------
(* Actions *)

\* a step of an initialized object, within the bound
Step ==
    /\ initialized
    /\ steps < MaxSteps
    /\ steps' = steps + 1

Initialize ==
    /\ ~initialized
    /\ Becomes(DoInitialize(Now))
    /\ initialized' = TRUE
    /\ last' = Operation("Initialize")
    /\ UNCHANGED <<wall, mono, system_rebooted, steps>>
    /\ wall_set_back' = FALSE

SetResponse(omaha_response) ==
    /\ Step
    /\ Becomes(DoSetResponse(Now, omaha_response))
    /\ last' = [Operation("SetResponse") EXCEPT
                   !.response = omaha_response,
                   !.changed = (ps.response_signature_ # SignatureOf(omaha_response))]
    /\ UNCHANGED <<wall, mono, system_rebooted, initialized>>
    /\ UNCHANGED wall_set_back

DownloadComplete(fuzz_minutes) ==
    /\ Step
    /\ Becomes(DoDownloadComplete(Now, fuzz_minutes))
    /\ last' = Operation("DownloadComplete")
    /\ UNCHANGED <<wall, mono, system_rebooted, initialized>>
    /\ UNCHANGED wall_set_back

DownloadProgress(count) ==
    /\ Step
    /\ Becomes(DoDownloadProgress(Now, count))
    /\ last' = [Operation("DownloadProgress") EXCEPT !.count = count]
    /\ UNCHANGED <<wall, mono, system_rebooted, initialized>>
    /\ UNCHANGED wall_set_back

UpdateResumed ==
    /\ Step
    /\ Becomes(DoUpdateResumed(Now))
    /\ last' = Operation("UpdateResumed")
    /\ UNCHANGED <<wall, mono, system_rebooted, initialized>>
    /\ UNCHANGED wall_set_back

UpdateRestarted ==
    /\ Step
    /\ Becomes(DoUpdateRestarted(Now))
    /\ last' = Operation("UpdateRestarted")
    /\ UNCHANGED <<wall, mono, system_rebooted, initialized>>
    /\ UNCHANGED wall_set_back

UpdateSucceeded ==
    /\ Step
    /\ Becomes(DoUpdateSucceeded(Now))
    /\ last' = Operation("UpdateSucceeded")
    /\ UNCHANGED <<wall, mono, system_rebooted, initialized>>
    /\ UNCHANGED wall_set_back

UpdateFailed(base_error, fuzz_minutes) ==
    /\ Step
    /\ Becomes(DoUpdateFailed(Now, base_error, fuzz_minutes))
    /\ last' = [Operation("UpdateFailed") EXCEPT !.error = ErrorClass(base_error)]
    /\ UNCHANGED <<wall, mono, system_rebooted, initialized>>
    /\ UNCHANGED wall_set_back

\* the process ends and starts again in the same boot: a new object is
\* constructed and Initialize() reads the store
Restart ==
    /\ Step
    /\ Becomes(DoInitialize([Now EXCEPT !.o = Constructed]))
    /\ system_rebooted' = FALSE
    /\ last' = Operation("Restart")
    /\ UNCHANGED <<wall, mono, initialized>>
    /\ wall_set_back' = FALSE

\* the device reboots: the monotonic clock starts over, and the new process
\* finds that the system was just rebooted
Reboot ==
    /\ Step
    /\ ~system_rebooted
    /\ mono' = 0
    /\ system_rebooted' = TRUE
    /\ LET s == DoInitialize([Now EXCEPT !.o = Constructed])
       IN  /\ ps' = [s.o EXCEPT !.update_duration_uptime_timestamp_ = 0]
           /\ prefs' = s.p
           /\ uma' = s.uma
    /\ last' = Operation("Reboot")
    /\ UNCHANGED <<wall, initialized>>
    /\ wall_set_back' = FALSE

\* time passes: both clocks advance
Tick ==
    /\ Step
    /\ wall' = wall + kSecondsPerDay
    /\ mono' = mono + kSecondsPerDay
    /\ last' = NoOperation
    /\ UNCHANGED <<ps, prefs, uma, system_rebooted, initialized>>
    /\ UNCHANGED wall_set_back

\* the wall clock is set by a time sync; the monotonic clock is not
SetWallclock(delta) ==
    /\ Step
    /\ wall' = wall + delta
    /\ last' = NoOperation
    /\ UNCHANGED <<ps, prefs, uma, mono, system_rebooted, initialized>>
    /\ wall_set_back' = (wall_set_back \/ delta < 0)

Counts == {0, kNumBytesInOneMiB \div 2}

Next ==
    \/ Initialize
    \/ \E r \in Responses : SetResponse(r)
    \/ \E f \in FuzzValues : DownloadComplete(f)
    \/ \E n \in Counts : DownloadProgress(n)
    \/ UpdateResumed
    \/ UpdateRestarted
    \/ UpdateSucceeded
    \/ \E e \in SampleErrors, f \in FuzzValues : UpdateFailed(e, f)
    \/ Restart
    \/ Reboot
    \/ Tick
    \/ \E d \in {-kSecondsPerDay} : SetWallclock(d)

Spec == Init /\ [][Next]_vars

----------------------------------------------------------------------------
(* A process that dies between two writes to prefs *)

\* SetResponse() for a response with a changed signature, write by write: the
\* object and the store after each write to prefs, in the order of the code
SetResponseWrites(s, omaha_response) ==
    LET s0 == [s EXCEPT !.o.response_ = omaha_response]
        s1 == SetResponseSignature(s0, CalculateResponseSignature(s0))
        s2 == SetPayloadAttemptNumber(s1, 0)
        s3 == SetUrlIndex(s2, 0)
        s4 == SetUrlFailureCount(s3, 0)
        s5 == SetUrlSwitchCount(s4, 0)
        s6 == UpdateBackoffExpiryTime(s5, 0)
        s7 == SetUpdateTimestampStart(s6, wall)
        s8 == SetUpdateDurationUptime(SetUpdateTimestampEnd(s7, 0), 0)
        s9 == SetCurrentBytesDownloaded(s8, kDownloadSourceHttpsServer, 0)
        s10 == SetCurrentBytesDownloaded(s9, kDownloadSourceHttpServer, 0)
    IN  <<s1, s2, s3, s4, s5, s6, s7, s8, s9, s10>>

\* the writes after which the process may die with writes still to come
CrashPoints == 1..9

\* SetResponse() sees a changed signature and the process dies after its
\* first `writes` writes to prefs; a new process constructs the object and
\* Initialize() reads the store that was left
SetResponseInterrupted(omaha_response, writes) ==
    /\ Step
    /\ ps.response_signature_ # SignatureOf(omaha_response)
    /\ Becomes(DoInitialize(
           [Now EXCEPT !.o = Constructed,
                       !.p = SetResponseWrites(Now, omaha_response)[writes].p]))
    /\ system_rebooted' = FALSE
    /\ last' = [Operation("SetResponseInterrupted") EXCEPT
                   !.response = omaha_response, !.count = writes, !.changed = TRUE]
    /\ UNCHANGED <<wall, mono, initialized>>
    /\ wall_set_back' = FALSE

NextCrash ==
    \/ Initialize
    \/ \E r \in Responses : SetResponse(r)
    \/ \E f \in FuzzValues : DownloadComplete(f)
    \/ \E e \in SampleErrors, f \in FuzzValues : UpdateFailed(e, f)
    \/ \E r \in Responses, k \in CrashPoints : SetResponseInterrupted(r, k)

\* the process first starts over an empty store, so that every entry of the
\* store was written by the operations
InitCrash == Init /\ prefs = EmptyPrefs

SpecCrash == InitCrash /\ [][NextCrash]_vars

----------------------------------------------------------------------------
(* Failures of every error code *)

NextErrors ==
    \/ Initialize
    \/ \E r \in Responses : SetResponse(r)
    \/ \E f \in FuzzValues : DownloadComplete(f)
    \/ \E n \in Counts : DownloadProgress(n)
    \/ \E e \in ErrorCodes, f \in FuzzValues : UpdateFailed(e, f)

SpecErrors == Init /\ [][NextErrors]_vars

----------------------------------------------------------------------------
(* The backoff computation over a range of attempt numbers *)

\* the payload attempt numbers the computation is tried on: around each
\* change of the number of days, around the limit of the shift, and up to
\* 2^31 - 1, the largest integer TLC holds (a uint32_t above it takes the
\* same branch of min(p - 1, kMaxShifts))
AttemptNumbers == {0, 1, 2, 3, 4, 5, 6, 17, 31, 32, 33, 1000, 2147483647}

\* an initialized object holding any of the attempt numbers and any of the
\* responses, at the start or a day later
InitBackoff ==
    /\ \E n \in AttemptNumbers, r \in Responses :
          ps = [Constructed EXCEPT !.payload_attempt_number_ = n,
                                   !.response_ = r,
                                   !.response_signature_ = SignatureOf(r),
                                   !.update_timestamp_start_ = Epoch]
    /\ prefs = EmptyPrefs
    /\ uma = <<>>
    /\ wall \in {Epoch, Epoch + kSecondsPerDay}
    /\ mono = 0
    /\ system_rebooted = FALSE
    /\ initialized = TRUE
    /\ last = NoOperation
    /\ steps = 0
    /\ wall_set_back = FALSE

\* UpdateBackoffExpiryTime() is called; last.count keeps the fuzz it drew
BackoffComputed(fuzz_minutes) ==
    /\ Step
    /\ Becomes(UpdateBackoffExpiryTime(Now, fuzz_minutes))
    /\ last' = [Operation("UpdateBackoffExpiryTime") EXCEPT !.count = fuzz_minutes]
    /\ UNCHANGED <<wall, mono, system_rebooted, initialized, wall_set_back>>

NextBackoff ==
    \/ \E f \in FuzzValues : BackoffComputed(f)
    \/ Tick

SpecBackoff == InitBackoff /\ [][NextBackoff]_vars

----------------------------------------------------------------------------
(* Responses that differ in one signed field, and signatures compared *)

ResponseUrlsSwapped == [ResponseTwoUrls EXCEPT !.payload_urls = <<UrlB, UrlA>>]

\* two responses with different payload hashes, metadata sizes and metadata
\* signatures: a line break inside a string field of each stands where the
\* other has the end of a field
ResponseBreakInSignature ==
    [ResponseTwoUrls EXCEPT
        !.hash = <<"h">>,
        !.metadata_size = 5,
        !.metadata_signature =
            <<"q">> \o StrNL \o StrMetadataSize \o FormatDecimal(7)
                    \o StrNL \o StrMetadataSignature \o <<"r">>]
ResponseBreakInHash ==
    [ResponseTwoUrls EXCEPT
        !.hash =
            <<"h">> \o StrNL \o StrMetadataSize \o FormatDecimal(5)
                    \o StrNL \o StrMetadataSignature \o <<"q">>,
        !.metadata_size = 7,
        !.metadata_signature = <<"r">>]

SignatureResponses ==
    { ResponseTwoUrls,
      ResponseUrlsSwapped,
      [ResponseTwoUrls EXCEPT !.size = 2],
      [ResponseTwoUrls EXCEPT !.hash = <<"g">>],
      [ResponseTwoUrls EXCEPT !.metadata_size = 2],
      [ResponseTwoUrls EXCEPT !.metadata_signature = <<"t">>],
      [ResponseTwoUrls EXCEPT !.is_delta_payload = TRUE],
      [ResponseTwoUrls EXCEPT !.max_failure_count_per_url = 3],
      [ResponseTwoUrls EXCEPT !.disable_payload_backoff = TRUE],
      ResponseBreakInSignature,
      ResponseBreakInHash }

NextSignature ==
    \/ Initialize
    \/ \E r \in SignatureResponses : SetResponse(r)

SpecSignature == InitCrash /\ [][NextSignature]_vars

----------------------------------------------------------------------------
(* Attempts that have downloaded whole MiBs, and the process dying inside
   DownloadProgress() *)

\* the byte counts of the DownloadProgress() calls
MetricsCounts == {0, kNumBytesInOneMiB + 1, 2 * kNumBytesInOneMiB}

\* an attempt under way: a first start over an empty store, the response with
\* two URLs, a bytes from the first URL, possibly a payload corruption that
\* moves to the second URL, b bytes, possibly UpdateRestarted(), c bytes
InitMetrics ==
    /\ wall = Epoch
    /\ mono = 0
    /\ system_rebooted = FALSE
    /\ \E a \in MetricsCounts, b \in MetricsCounts, c \in MetricsCounts,
          failed \in BOOLEAN, restarted \in BOOLEAN :
       \E s0 \in { DoInitialize([o |-> Constructed, p |-> EmptyPrefs,
                                 uma |-> <<>>]) } :
       \E s1 \in { DoSetResponse(s0, ResponseTwoUrls) } :
       \E s2 \in { DoDownloadProgress(s1, a) } :
       \E s3 \in { IF failed
                     THEN DoUpdateFailed(s2, "kErrorCodePayloadHashMismatchError", 0)
                     ELSE s2 } :
       \E s4 \in { DoDownloadProgress(s3, b) } :
       \E s5 \in { IF restarted THEN DoUpdateRestarted(s4) ELSE s4 } :
       \E s6 \in { DoDownloadProgress(s5, c) } :
          /\ ps = s6.o
          /\ prefs = s6.p
    /\ uma = <<>>
    /\ initialized = TRUE
    /\ last = NoOperation
    /\ steps = 0
    /\ wall_set_back = FALSE

\* DownloadProgress(count) with count > 0 in which the process dies after
\* SetCurrentBytesDownloaded() and before SetTotalBytesDownloaded(); a new
\* process constructs the object and Initialize() reads the store that was left
DownloadProgressInterrupted(count) ==
    /\ Step
    /\ count > 0
    /\ LET s1 == CalculateUpdateDurationUptime(Now)
           src == s1.o.current_download_source_
           s2 == SetCurrentBytesDownloaded(s1, src,
                     GetCurrentBytesDownloaded(s1, src) + count)
       IN  Becomes(DoInitialize([s2 EXCEPT !.o = Constructed]))
    /\ system_rebooted' = FALSE
    /\ last' = [Operation("DownloadProgressInterrupted") EXCEPT !.count = count]
    /\ UNCHANGED <<wall, mono, initialized>>
    /\ wall_set_back' = FALSE

NextMetrics ==
    \/ \E n \in MetricsCounts : DownloadProgress(n)
    \/ \E n \in MetricsCounts : DownloadProgressInterrupted(n)
    \/ UpdateResumed
    \/ UpdateSucceeded
    \/ Reboot

SpecMetrics == InitMetrics /\ [][NextMetrics]_vars

----------------------------------------------------------------------------
(* A new process over a store that something other than the operations wrote *)

\* the keys that GetPersistedValue() loads
CounterKeys ==
    { kPrefsPayloadAttemptNumber, kPrefsCurrentUrlIndex,
      kPrefsCurrentUrlFailureCount, kPrefsUrlSwitchCount, kPrefsNumReboots }
    \cup { GetPrefsKey(kPrefsCurrentBytesDownloaded, s) : s \in DownloadSources }
    \cup { GetPrefsKey(kPrefsTotalBytesDownloaded, s) : s \in DownloadSources }

\* what the store may hold under a set of keys when the process starts: the
\* entry missing, not an integer, negative or valid for one counter or for
\* all; the backoff expiry, the wall clock being at `now`, missing, not an
\* integer, in the past, at and just past kMaxBackoffDays ahead; the start
\* timestamp missing, not an integer, in the past, at and just past
\* kDurationSlack ahead
ForeignWrites(now) ==
    ( ({ {k} : k \in CounterKeys } \cup {CounterKeys})
        \X {Absent, Unreadable, Stored(-1), Stored(3)} )
    \cup
    ( {{kPrefsBackoffExpiryTime}}
        \X { Absent, Unreadable, Stored(now - kSecondsPerDay),
             Stored(now + kMaxBackoffDays * kSecondsPerDay),
             Stored(now + kMaxBackoffDays * kSecondsPerDay + 1) } )
    \cup
    ( {{kPrefsUpdateTimestampStart}}
        \X { Absent, Unreadable, Stored(now - kSecondsPerDay),
             Stored(now + kDurationSlack),
             Stored(now + kDurationSlack + 1) } )

\* an attempt under way over a store that the operations wrote: a first
\* start, the response with two URLs, bytes from the first URL, a payload
\* corruption that moves to the second URL, a transient error, and a
\* completed download
InitLoad ==
    /\ wall = Epoch
    /\ mono = 0
    /\ system_rebooted = FALSE
    /\ \E s0 \in { DoInitialize([o |-> Constructed, p |-> EmptyPrefs,
                                 uma |-> <<>>]) } :
       \E s1 \in { DoSetResponse(s0, ResponseTwoUrls) } :
       \E s2 \in { DoDownloadProgress(s1, kNumBytesInOneMiB) } :
       \E s3 \in { DoUpdateFailed(s2, "kErrorCodePayloadHashMismatchError", 0) } :
       \E s4 \in { DoUpdateFailed(s3, "kErrorCodeDownloadTransferError", 0) } :
       \E s5 \in { DoDownloadComplete(s4, 0) } :
          /\ ps = s5.o
          /\ prefs = s5.p
    /\ uma = <<>>
    /\ initialized = TRUE
    /\ last = NoOperation
    /\ steps = 0
    /\ wall_set_back = FALSE

\* the process ends, the entries of `keys` are overwritten by `entry`, and a
\* new process constructs the object and Initialize() reads the store;
\* last.store keeps the store that Initialize() found
RestartOverStore(keys, entry) ==
    /\ Step
    /\ steps < MaxForeignWrites
    /\ LET found == [k \in PrefsKeys |-> IF k \in keys THEN entry ELSE prefs[k]]
       IN  /\ Becomes(DoInitialize([o |-> Constructed, p |-> found, uma |-> <<>>]))
           /\ last' = [store |-> found] @@ Operation("RestartOverStore")
    /\ system_rebooted' = FALSE
    /\ UNCHANGED <<wall, mono, initialized>>
    /\ wall_set_back' = FALSE

NextLoad ==
    \/ \E w \in ForeignWrites(wall) : RestartOverStore(w[1], w[2])
    \/ Tick

SpecLoad == InitLoad /\ [][NextLoad]_vars

----------------------------------------------------------------------------
(* Runs of transient failures *)

ResponseThreeUrls == OmahaResponse(<<UrlA, UrlB, UrlC>>, FALSE, 1, FALSE)

\* non-delta responses with n URLs and k failures allowed per URL:
\* n = 2, k = 2; n = 1, k = 1; n = 1, k = 2; n = 3, k = 1
RunResponses ==
    {ResponseTwoUrls, ResponseOneUrl, ResponseNoBackoff, ResponseThreeUrls}

\* a first start over an empty store and one of the responses, possibly with
\* one download completed before, at the start or a day later; last.run
\* counts the transient failures since and last.from keeps the payload
\* attempt number they started from
InitRun ==
    /\ wall \in {Epoch, Epoch + kSecondsPerDay}
    /\ mono = 0
    /\ system_rebooted = FALSE
    /\ \E r \in RunResponses, completed \in BOOLEAN :
       \E s0 \in { DoInitialize([o |-> Constructed, p |-> EmptyPrefs,
                                 uma |-> <<>>]) } :
       \E s1 \in { DoSetResponse(s0, r) } :
       \E s2 \in { IF completed THEN DoDownloadComplete(s1, 0) ELSE s1 } :
          /\ ps = s2.o
          /\ prefs = s2.p
          /\ last = [run |-> 0, from |-> s2.o.payload_attempt_number_]
                       @@ NoOperation
    /\ uma = <<>>
    /\ initialized = TRUE
    /\ steps = 0
    /\ wall_set_back = FALSE

\* UpdateFailed() with a transient network error, no DownloadProgress()
\* having come since the run began
TransientFailure(base_error, fuzz_minutes) ==
    /\ Step
    /\ Becomes(DoUpdateFailed(Now, base_error, fuzz_minutes))
    /\ last' = [run |-> last.run + 1, from |-> last.from]
                  @@ [Operation("UpdateFailed") EXCEPT
                         !.error = ErrorClass(base_error)]
    /\ UNCHANGED <<wall, mono, system_rebooted, initialized>>
    /\ UNCHANGED wall_set_back

\* time passes between two failures of a run
TimePasses ==
    /\ Step
    /\ wall' = wall + kSecondsPerDay
    /\ mono' = mono + kSecondsPerDay
    /\ UNCHANGED <<ps, prefs, uma, system_rebooted, initialized, last>>
    /\ UNCHANGED wall_set_back

NextRun ==
    \/ \E e \in TransientNetworkErrors, f \in FuzzValues : TransientFailure(e, f)
    \/ TimePasses

SpecRun == InitRun /\ [][NextRun]_vars

----------------------------------------------------------------------------
(* The backoff computation followed by a new process *)

NextBackoffRestart ==
    \/ NextBackoff
    \/ Restart

SpecBackoffRestart == InitBackoff /\ [][NextBackoffRestart]_vars

----------------------------------------------------------------------------
(* The operations over a store with entries that cannot be read *)

\* a string entry that exists and cannot be read
UnreadableString == [ex |-> TRUE, ok |-> FALSE, v |-> <<>>]

\* entries found missing or unreadable by a new process: the backoff expiry,
\* the response signature, the reboot count
UnreadableWrites ==
    { <<{kPrefsBackoffExpiryTime}, Unreadable>>,
      <<{kPrefsBackoffExpiryTime}, Absent>>,
      <<{kPrefsCurrentResponseSignature}, UnreadableString>>,
      <<{kPrefsNumReboots}, Unreadable>> }

NextStore ==
    \/ \E r \in Responses : SetResponse(r)
    \/ \E f \in FuzzValues : DownloadComplete(f)
    \/ \E n \in Counts : DownloadProgress(n)
    \/ UpdateResumed
    \/ UpdateRestarted
    \/ UpdateSucceeded
    \/ \E e \in SampleErrors, f \in FuzzValues : UpdateFailed(e, f)
    \/ Restart
    \/ Reboot
    \/ Tick
    \/ \E w \in UnreadableWrites : RestartOverStore(w[1], w[2])

SpecStore == InitLoad /\ [][NextStore]_vars

----------------------------------------------------------------------------
(* Properties *)

PublicOperations ==
    { "Initialize", "SetResponse", "DownloadComplete", "DownloadProgress",
      "UpdateResumed", "UpdateRestarted", "UpdateSucceeded", "UpdateFailed" }

Urls == ps.response_.payload_urls

\* a response has been handed to SetResponse() since the object was constructed
HasResponse == ps.response_ # DefaultResponse

AllBytesZero(counters) == \A src \in DownloadSources : counters[src] = 0

\* C1: whenever the current response holds at least one URL, the URL index
\* is an index into its URLs, also after a store with any URL index was loaded.
C1_UrlIndexInRange ==
    (initialized /\ Len(Urls) > 0) =>
        (0 <= ps.url_index_ /\ ps.url_index_ < Len(Urls))

\* a response of two URLs was accepted after url_index 5 had been loaded
C1_Witness ==
    /\ last.op = "SetResponse"
    /\ ~last.changed
    /\ last.pre.url_index_ = 5
    /\ Len(Urls) = 2
    /\ ps.url_index_ = 0

\* C2 as stated: after SetResponse() with a changed signature every other
\* field is at its initial value, the reboot count and the total byte
\* counters included.
C2_Original ==
    (last.op = "SetResponse" /\ last.changed) =>
        /\ ps.payload_attempt_number_ = 0
        /\ ps.url_index_ = 0
        /\ ps.url_failure_count_ = 0
        /\ ps.url_switch_count_ = 0
        /\ ps.backoff_expiry_time_ = 0
        /\ ps.update_duration_uptime_ = 0
        /\ ps.num_reboots_ = 0
        /\ AllBytesZero(ps.current_bytes_downloaded_)
        /\ AllBytesZero(ps.total_bytes_downloaded_)

\* C2 amended: after SetResponse() with a changed signature the attempt
\* number, URL index, failure count and switch count are 0, the backoff expiry
\* is null, the uptime is 0 and every current byte counter is 0, while the
\* reboot count and the total byte counters are what they were.
C2_ResetOnNewResponse ==
    (last.op = "SetResponse" /\ last.changed) =>
        /\ ps.payload_attempt_number_ = 0
        /\ ps.url_index_ = 0
        /\ ps.url_failure_count_ = 0
        /\ ps.url_switch_count_ = 0
        /\ ps.backoff_expiry_time_ = 0
        /\ ps.update_duration_uptime_ = 0
        /\ AllBytesZero(ps.current_bytes_downloaded_)
        /\ ps.num_reboots_ = last.pre.num_reboots_
        /\ ps.total_bytes_downloaded_ = last.pre.total_bytes_downloaded_

\* a new response arrived while an update with attempts, URL switches, a
\* backoff and downloaded bytes was in progress
C2_Witness ==
    /\ last.op = "SetResponse"
    /\ last.changed
    /\ last.pre.payload_attempt_number_ > 0
    /\ last.pre.url_switch_count_ > 0
    /\ last.pre.backoff_expiry_time_ # 0
    /\ ~AllBytesZero(last.pre.total_bytes_downloaded_)

\* C3 as stated: once Initialize() has run, the backoff expiry is null
\* whenever the payload attempt number is 0.
C3_Original ==
    (initialized /\ ps.payload_attempt_number_ = 0) =>
        ps.backoff_expiry_time_ = 0

\* C4 as stated: once Initialize() has run, the backoff expiry is null
\* whenever the current response disables backoff.
C4_Original ==
    (initialized /\ ps.response_.disable_payload_backoff) =>
        ps.backoff_expiry_time_ = 0

\* an operation after which C5 lets the attempt number be lower
C5_MayLowerAsStated ==
    \/ last.op \notin (PublicOperations \cup {"Restart", "Reboot"})
    \/ last.op = "UpdateSucceeded"
    \/ last.op = "SetResponse" /\ last.changed

\* C5 as stated: no operation lowers the payload attempt number, except
\* UpdateSucceeded() and SetResponse() with a changed signature.
C5_Original ==
    ~C5_MayLowerAsStated =>
        ps.payload_attempt_number_ >= last.pre.payload_attempt_number_

\* C5 amended: no operation lowers the payload attempt number, except
\* UpdateSucceeded() and a SetResponse() that resets the persisted state: one
\* with a changed signature, or one that finds url_index >= the number of
\* URLs of the response, as every response of zero URLs does.
C5_AttemptNumberMonotonic ==
    ~( \/ C5_MayLowerAsStated
       \/ /\ last.op = "SetResponse"
          /\ last.pre.url_index_ >= Len(last.response.payload_urls) ) =>
        ps.payload_attempt_number_ >= last.pre.payload_attempt_number_

\* the same response was accepted again while attempts were counted
C5_Witness ==
    /\ last.op = "SetResponse"
    /\ ~last.changed
    /\ last.pre.url_index_ < Len(last.response.payload_urls)
    /\ last.pre.payload_attempt_number_ > 0
    /\ ps.payload_attempt_number_ = last.pre.payload_attempt_number_

\* C6 as stated: once a response is current, the URL failure count is below
\* the response's maximum of failures per URL.
C6_Original ==
    (initialized /\ HasResponse) =>
        ps.url_failure_count_ < ps.response_.max_failure_count_per_url

\* C7: right after DownloadProgress(n) with n > 0 the URL failure count is 0.
C7_ProgressClearsFailureCount ==
    (last.op = "DownloadProgress" /\ last.count > 0) =>
        ps.url_failure_count_ = 0

\* bytes arrived while failures were counted against the URL
C7_Witness ==
    /\ last.op = "DownloadProgress"
    /\ last.count > 0
    /\ last.pre.url_failure_count_ > 0
    /\ ps.url_failure_count_ = 0

UptimeWithinSlack ==
    ps.update_duration_uptime_ <=
        (wall - ps.update_timestamp_start_) + kDurationSlack

\* C8 as stated: in every state the uptime duration is at most the
\* wall-clock time since the start of the update plus the slack.
C8_Original == initialized => UptimeWithinSlack

\* C8 amended: the uptime duration is at most the wall-clock time since the
\* start of the update plus the slack in every state reached without the
\* wall clock having been set back since the latest Initialize().
C8_UptimeWithinSlack ==
    (initialized /\ ~wall_set_back) => UptimeWithinSlack

\* DownloadProgress() added a day of monotonic time to the uptime
C8_Witness ==
    /\ last.op = "DownloadProgress"
    /\ ~wall_set_back
    /\ ps.update_duration_uptime_ >= kSecondsPerDay
    /\ ps.update_duration_uptime_ > last.pre.update_duration_uptime_

\* C9 as stated: ShouldBackoffDownload() is true iff backoff is not disabled,
\* the payload is not a delta, the build is official, and the backoff expiry
\* is set and strictly later than the wall-clock time.
C9_Original ==
    initialized =>
        \A official \in BOOLEAN :
            ShouldBackoffDownload(Now, official) <=>
                /\ ~ps.response_.disable_payload_backoff
                /\ ~ps.response_.is_delta_payload
                /\ official
                /\ ps.backoff_expiry_time_ # 0
                /\ ps.backoff_expiry_time_ > wall

\* C9 amended: ShouldBackoffDownload() is true iff backoff is not disabled,
\* the payload is not a delta, the build is official, and the backoff expiry
\* is set and not earlier than the wall-clock time (true when they are equal).
C9_ShouldBackoffDownload ==
    initialized =>
        \A official \in BOOLEAN :
            ShouldBackoffDownload(Now, official) <=>
                /\ ~ps.response_.disable_payload_backoff
                /\ ~ps.response_.is_delta_payload
                /\ official
                /\ ps.backoff_expiry_time_ # 0
                /\ ps.backoff_expiry_time_ >= wall

\* the wall clock reads exactly the backoff expiry of a full payload
C9_Witness ==
    /\ initialized
    /\ ps.backoff_expiry_time_ = wall
    /\ ShouldBackoffDownload(Now, TRUE)
    /\ ~ShouldBackoffDownload(Now, FALSE)

\* the members a restart is to keep, under C10
Persisted(o) ==
    [ response_signature_ |-> o.response_signature_,
      payload_attempt_number_ |-> o.payload_attempt_number_,
      url_index_ |-> o.url_index_,
      url_failure_count_ |-> o.url_failure_count_,
      url_switch_count_ |-> o.url_switch_count_,
      backoff_expiry_time_ |-> o.backoff_expiry_time_,
      update_timestamp_start_ |-> o.update_timestamp_start_,
      update_duration_uptime_ |-> o.update_duration_uptime_,
      num_reboots_ |-> o.num_reboots_,
      current_bytes_downloaded_ |-> o.current_bytes_downloaded_,
      total_bytes_downloaded_ |-> o.total_bytes_downloaded_ ]

RestartedStart(o, p) ==
    IF p[kPrefsUpdateTimestampStart].ex
         /\ o.update_timestamp_start_ <= wall + kDurationSlack
      THEN o.update_timestamp_start_
      ELSE wall

\* what a restart makes of the uptime duration of the old object
RestartedUptime(o, p) ==
    IF p[kPrefsUpdateDurationUptime].ex
         /\ o.update_duration_uptime_ <=
               (wall - RestartedStart(o, p)) + kDurationSlack
      THEN o.update_duration_uptime_
      ELSE 0

SetResponseWritesComplete ==
    \A r \in Responses :
        ps.response_signature_ # SignatureOf(r) =>
            LET writes == SetResponseWrites(Now, r)
            IN  writes[Len(writes)] = DoSetResponse(Now, r)

\* C11 as stated: when the process dies between two writes of a SetResponse()
\* that replaces a response by one with another signature, and the new
\* process accepts the same response again, the store does not keep the
\* attempt number, URL index, failure count, switch count or backoff expiry
\* of the previous response under the new signature: each is at its reset
\* value.
C11_Original ==
    [][ ( /\ last.op = "SetResponseInterrupted"
          /\ last.pre.response_ # DefaultResponse
          /\ last'.op = "SetResponse"
          /\ last'.response = last.response )
        => /\ prefs'[kPrefsCurrentResponseSignature] =
                  Stored(SignatureOf(last.response))
           /\ ps'.payload_attempt_number_ = 0
           /\ ps'.url_index_ = 0
           /\ ps'.url_failure_count_ = 0
           /\ ps'.url_switch_count_ = 0
           /\ ps'.backoff_expiry_time_ = 0 ]_vars

\* C12: when SetResponse() is given the response whose signature is stored
\* and finds a URL index that is not below the number of its URLs, the state
\* is reset: URL index, failure count, switch count and attempt number are 0,
\* the backoff expiry is null, the uptime is 0 and the current byte counters
\* are 0.
C12_ResetOnInvalidUrlIndex ==
    ( /\ last.op = "SetResponse"
      /\ ~last.changed
      /\ last.pre.url_index_ >= Len(last.response.payload_urls) ) =>
        /\ ps.url_index_ = 0
        /\ ps.url_failure_count_ = 0
        /\ ps.url_switch_count_ = 0
        /\ ps.payload_attempt_number_ = 0
        /\ ps.backoff_expiry_time_ = 0
        /\ ps.update_duration_uptime_ = 0
        /\ AllBytesZero(ps.current_bytes_downloaded_)
        /\ prefs[kPrefsCurrentUrlIndex] = Stored(0)
        /\ prefs[kPrefsPayloadAttemptNumber] = Stored(0)

\* URL index 5 was loaded for a response of two URLs, an attempt was counted
\* and a backoff armed, and the response was then accepted with everything reset
C12_Witness ==
    /\ last.op = "SetResponse"
    /\ ~last.changed
    /\ Len(last.response.payload_urls) = 2
    /\ last.pre.url_index_ = 5
    /\ last.pre.payload_attempt_number_ > 0
    /\ last.pre.backoff_expiry_time_ # 0
    /\ ps.url_index_ = 0
    /\ ps.payload_attempt_number_ = 0

\* the download source that the scheme of a URL stands for
SourceOfUrl(url) ==
    IF StartsWithASCII(url, StrHttps, FALSE) THEN kDownloadSourceHttpsServer
    ELSE IF StartsWithASCII(url, StrHttp, FALSE) THEN kDownloadSourceHttpServer
    ELSE kDownloadSourceNone

\* UpdateFailed() of the given case group ran against a response with URLs
FailedWith(class) ==
    /\ last.op = "UpdateFailed"
    /\ last.error = class
    /\ Len(Urls) > 0

\* C13: UpdateFailed() with a payload-corruption code and n > 0 URLs sets the
\* URL index to (url_index + 1) mod n and the failure count to 0, adds 1 to
\* the switch count when n > 1 and nothing when n = 1, and sets the download
\* source to the one of the new URL's scheme.
C13_CorruptionAdvancesUrl ==
    FailedWith("PayloadCorruption") =>
        /\ ps.url_index_ = (last.pre.url_index_ + 1) % Len(Urls)
        /\ ps.url_failure_count_ = 0
        /\ ps.url_switch_count_ =
              last.pre.url_switch_count_ + (IF Len(Urls) > 1 THEN 1 ELSE 0)
        /\ ps.current_download_source_ = SourceOfUrl(Urls[ps.url_index_ + 1])

\* a corruption failure on the second of two URLs, with a failure counted
\* against it, went back to the first URL
C13_Witness ==
    /\ FailedWith("PayloadCorruption")
    /\ Len(Urls) = 2
    /\ last.pre.url_index_ = 1
    /\ last.pre.url_failure_count_ = 1
    /\ ps.url_index_ = 0
    /\ ps.url_failure_count_ = 0
    /\ ps.url_switch_count_ = last.pre.url_switch_count_ + 1
    /\ last.pre.current_download_source_ = kDownloadSourceHttpServer
    /\ ps.current_download_source_ = kDownloadSourceHttpsServer

\* C14: UpdateFailed() with a transient-network code and URLs present adds 1
\* to the failure count and leaves URL index, switch count and attempt number
\* alone when the new count is below the response's maximum; otherwise it
\* advances the URL as a payload-corruption code does and the failure count
\* becomes 0.  With a maximum of 1 every such failure advances the URL.
C14_TransientCountsThenAdvances ==
    FailedWith("TransientNetwork") =>
        IF last.pre.url_failure_count_ + 1 < ps.response_.max_failure_count_per_url
          THEN /\ ps.url_failure_count_ = last.pre.url_failure_count_ + 1
               /\ ps.url_index_ = last.pre.url_index_
               /\ ps.url_switch_count_ = last.pre.url_switch_count_
               /\ ps.payload_attempt_number_ = last.pre.payload_attempt_number_
          ELSE /\ ps.url_failure_count_ = 0
               /\ ps.url_index_ = (last.pre.url_index_ + 1) % Len(Urls)
               /\ ps.url_switch_count_ =
                     last.pre.url_switch_count_ + (IF Len(Urls) > 1 THEN 1 ELSE 0)
               /\ ps.current_download_source_ =
                     SourceOfUrl(Urls[ps.url_index_ + 1])

\* the second transient failure in a row against a maximum of 2 moved on to
\* the second URL
C14_Witness ==
    /\ FailedWith("TransientNetwork")
    /\ ps.response_.max_failure_count_per_url = 2
    /\ last.pre.url_failure_count_ = 1
    /\ last.pre.url_index_ = 0
    /\ ps.url_index_ = 1
    /\ ps.url_failure_count_ = 0

C16_NoUrlsNoChange ==
    [][ (last'.op = "UpdateFailed" /\ Len(Urls) = 0) =>
            (ps' = ps /\ prefs' = prefs) ]_vars

\* a payload-corruption code arrived for an accepted response without URLs,
\* with an attempt counted
C16_Witness ==
    /\ last.op = "UpdateFailed"
    /\ last.error = "PayloadCorruption"
    /\ ps.response_ = ResponseNoUrls
    /\ ps.payload_attempt_number_ > 0
    /\ ps = last.pre

\* the failure that UpdateFailed() just handled advanced the URL: a
\* payload-corruption code, or the transient-network code that brought the
\* failure count to the response's maximum
FailureAdvanced ==
    \/ last.error = "PayloadCorruption"
    \/ /\ last.error = "TransientNetwork"
       /\ last.pre.url_failure_count_ + 1 >= ps.response_.max_failure_count_per_url

\* C17: with a response of exactly one URL that is not a delta, a failure
\* that advances the URL (one payload-corruption failure, or the last of
\* max_failure_count_per_url transient failures in a row) leaves the URL index
\* at 0 and the switch count as it was and adds exactly 1 to the attempt
\* number, the transient failures before it adding nothing; with backoff
\* enabled and a resulting attempt number of 1 the backoff expiry is set and
\* is at most the current time + 1 day + 6 hours.
C17_SingleUrlWraps ==
    ( /\ last.op = "UpdateFailed"
      /\ last.error \in {"PayloadCorruption", "TransientNetwork"}
      /\ Len(Urls) = 1
      /\ ~ps.response_.is_delta_payload ) =>
        /\ ps.url_index_ = 0
        /\ ps.url_switch_count_ = last.pre.url_switch_count_
        /\ ps.payload_attempt_number_ =
              last.pre.payload_attempt_number_ + (IF FailureAdvanced THEN 1 ELSE 0)
        /\ ( /\ FailureAdvanced
             /\ ~ps.response_.disable_payload_backoff
             /\ ps.payload_attempt_number_ = 1 ) =>
               /\ ps.backoff_expiry_time_ # 0
               /\ ps.backoff_expiry_time_ <=
                     wall + kSecondsPerDay + 6 * 60 * kSecondsPerMinute

\* a day after the start, a transient failure against a maximum of 1 made the
\* first attempt of a one-URL response with the longest backoff the claim allows
C17_Witness ==
    /\ last.op = "UpdateFailed"
    /\ last.error = "TransientNetwork"
    /\ ps.response_ = ResponseOneUrl
    /\ wall > Epoch
    /\ last.pre.payload_attempt_number_ = 0
    /\ ps.payload_attempt_number_ = 1
    /\ ps.url_index_ = 0
    /\ ps.backoff_expiry_time_ = wall + kSecondsPerDay + 6 * 60 * kSecondsPerMinute

\* the days of backoff that C18 gives for an attempt number
BackoffDaysAsStated(p) ==
    CASE p = 1 -> 1
      [] p = 2 -> 2
      [] p = 3 -> 4
      [] p = 4 -> 8
      [] OTHER -> 16

\* C18: for every attempt number p >= 1 with backoff enabled,
\* UpdateBackoffExpiryTime() sets the expiry to the current time plus
\* 1, 2, 4, 8 days for p = 1..4 and 16 days for every p >= 5, plus the fuzz;
\* the expiry is at most 16 days and 6 hours after the current time.
C18_BackoffDays ==
    ( /\ last.op = "UpdateBackoffExpiryTime"
      /\ ~ps.response_.disable_payload_backoff
      /\ ps.payload_attempt_number_ >= 1 ) =>
        /\ ps.backoff_expiry_time_ =
              wall + BackoffDaysAsStated(ps.payload_attempt_number_) * kSecondsPerDay
                   + last.count * kSecondsPerMinute
        /\ ps.backoff_expiry_time_ <=
              wall + kMaxBackoffDays * kSecondsPerDay + 6 * 60 * kSecondsPerMinute
        /\ prefs[kPrefsBackoffExpiryTime] = Stored(ps.backoff_expiry_time_)

\* the largest attempt number got 16 days and the longest fuzz
C18_Witness ==
    /\ last.op = "UpdateBackoffExpiryTime"
    /\ ~ps.response_.disable_payload_backoff
    /\ ps.payload_attempt_number_ > 1000
    /\ ps.backoff_expiry_time_ =
          wall + kMaxBackoffDays * kSecondsPerDay + 6 * 60 * kSecondsPerMinute

\* C19: while the current response is a delta payload, DownloadComplete() and
\* UpdateFailed() leave the attempt number and the backoff expiry as they
\* were, so that a null expiry stays null, and ShouldBackoffDownload() is
\* false, whatever the build.
C19_DeltaNeverBacksOff ==
    (initialized /\ ps.response_.is_delta_payload) =>
        /\ \A official \in BOOLEAN : ~ShouldBackoffDownload(Now, official)
        /\ last.op \in {"DownloadComplete", "UpdateFailed"} =>
              /\ ps.payload_attempt_number_ = last.pre.payload_attempt_number_
              /\ ps.backoff_expiry_time_ = last.pre.backoff_expiry_time_

\* a payload-corruption failure wrapped around the one URL of a delta
\* response without an attempt being counted or a backoff armed
C19_Witness ==
    /\ last.op = "UpdateFailed"
    /\ last.error = "PayloadCorruption"
    /\ ps.response_ = ResponseDelta
    /\ ps.url_index_ = 0
    /\ ps.payload_attempt_number_ = 0
    /\ ps.backoff_expiry_time_ = 0
    /\ ~ShouldBackoffDownload(Now, TRUE)

\* C20: DownloadComplete() on a response that is not a delta adds exactly 1
\* to the attempt number, leaves URL index, failure count and switch count
\* alone, and computes the backoff expiry anew: null when the response
\* disables backoff and set otherwise.
C20_DownloadCompleteCountsAttempt ==
    (last.op = "DownloadComplete" /\ ~ps.response_.is_delta_payload) =>
        /\ ps.payload_attempt_number_ = last.pre.payload_attempt_number_ + 1
        /\ ps.url_index_ = last.pre.url_index_
        /\ ps.url_failure_count_ = last.pre.url_failure_count_
        /\ ps.url_switch_count_ = last.pre.url_switch_count_
        /\ IF ps.response_.disable_payload_backoff
             THEN ps.backoff_expiry_time_ = 0
             ELSE ps.backoff_expiry_time_ # 0
        /\ prefs[kPrefsBackoffExpiryTime] = Stored(ps.backoff_expiry_time_)

\* a second download completed a day after the first: the expiry of the
\* first attempt gave way to one computed from the current time
C20_Witness ==
    /\ last.op = "DownloadComplete"
    /\ ~ps.response_.is_delta_payload
    /\ ~ps.response_.disable_payload_backoff
    /\ last.pre.payload_attempt_number_ = 1
    /\ ps.payload_attempt_number_ = 2
    /\ last.pre.backoff_expiry_time_ # 0
    /\ ps.backoff_expiry_time_ > last.pre.backoff_expiry_time_
    /\ wall > Epoch

\* C21 as stated: SetResponse() finds the signature of a response equal to
\* the signature of the response before it exactly when the two responses
\* agree on the URL sequence, payload size, payload hash, metadata size,
\* metadata signature, delta flag, maximum of failures and backoff flag.
C21_Original ==
    (last.op = "SetResponse" /\ last.pre.response_ \in SignatureResponses) =>
        ( (ps.response_signature_ = last.pre.response_signature_)
            <=> (last.response = last.pre.response_) )

\* the download source of the current URL; none without a current URL
SourceOfCurrentUrl ==
    IF ps.url_index_ < Len(Urls) THEN SourceOfUrl(Urls[ps.url_index_ + 1])
                                 ELSE kDownloadSourceNone

\* C22: DownloadProgress(n) with n > 0 adds n to the current and to the total
\* byte counter of the source of the current URL, in the object and in the
\* store, and leaves the counters of the other sources alone; when the URL
\* has another scheme or there is no URL no counter changes.
\* DownloadProgress(0) changes nothing.
C22_BytesGoToCurrentSource ==
    last.op = "DownloadProgress" =>
        IF last.count = 0 THEN ps = last.pre
        ELSE \A src \in DownloadSources :
               LET n == IF src = SourceOfCurrentUrl THEN last.count ELSE 0
               IN  /\ ps.current_bytes_downloaded_[src] =
                         last.pre.current_bytes_downloaded_[src] + n
                   /\ ps.total_bytes_downloaded_[src] =
                         last.pre.total_bytes_downloaded_[src] + n
                   /\ src = SourceOfCurrentUrl =>
                         /\ prefs[GetPrefsKey(kPrefsCurrentBytesDownloaded, src)] =
                               Stored(ps.current_bytes_downloaded_[src])
                         /\ prefs[GetPrefsKey(kPrefsTotalBytesDownloaded, src)] =
                               Stored(ps.total_bytes_downloaded_[src])

\* bytes arrived from the second URL, whose scheme is written in capitals,
\* after bytes from the first: they went to the HTTP counters only
C22_Witness ==
    /\ last.op = "DownloadProgress"
    /\ last.count > 0
    /\ ps.url_index_ = 1
    /\ Urls = <<UrlA, UrlB>>
    /\ last.pre.current_bytes_downloaded_[kDownloadSourceHttpsServer] = last.count
    /\ ps.current_bytes_downloaded_[kDownloadSourceHttpsServer] = last.count
    /\ last.pre.current_bytes_downloaded_[kDownloadSourceHttpServer] = 0
    /\ ps.current_bytes_downloaded_[kDownloadSourceHttpServer] = last.count
    /\ ps.total_bytes_downloaded_[kDownloadSourceHttpServer] = last.count

\* C23: SetResponse(), UpdateRestarted() and UpdateFailed() leave every total
\* byte counter as it was, while a SetResponse() that resets the state and
\* UpdateRestarted() clear every current byte counter; no operation other
\* than UpdateSucceeded() lowers a total byte counter.
C23_TotalsOutliveResets ==
    /\ last.op \in {"SetResponse", "UpdateRestarted", "UpdateFailed"} =>
          ps.total_bytes_downloaded_ = last.pre.total_bytes_downloaded_
    /\ ( /\ last.op = "SetResponse"
         /\ \/ last.changed
            \/ last.pre.url_index_ >= Len(last.response.payload_urls) ) =>
          AllBytesZero(ps.current_bytes_downloaded_)
    /\ last.op = "UpdateRestarted" => AllBytesZero(ps.current_bytes_downloaded_)
    /\ last.op \in ((PublicOperations \cup {"Restart", "Reboot"})
                       \ {"UpdateSucceeded"}) =>
          \A src \in DownloadSources :
             /\ ps.total_bytes_downloaded_[src] >=
                   last.pre.total_bytes_downloaded_[src]
             /\ prefs[GetPrefsKey(kPrefsTotalBytesDownloaded, src)] =
                   Stored(ps.total_bytes_downloaded_[src])

\* UpdateRestarted() cleared the current bytes of a source and kept its total
C23_Witness ==
    /\ last.op = "UpdateRestarted"
    /\ \E src \in DownloadSources :
          /\ last.pre.current_bytes_downloaded_[src] > 0
          /\ ps.current_bytes_downloaded_[src] = 0
          /\ ps.total_bytes_downloaded_[src] > 0

C25_SucceededClearsAccounting ==
    last.op = "UpdateSucceeded" =>
        /\ AllBytesZero(ps.current_bytes_downloaded_)
        /\ AllBytesZero(ps.total_bytes_downloaded_)
        /\ \A src \in DownloadSources :
              /\ prefs[GetPrefsKey(kPrefsCurrentBytesDownloaded, src)] = Stored(0)
              /\ prefs[GetPrefsKey(kPrefsTotalBytesDownloaded, src)] = Stored(0)
        /\ ps.num_reboots_ = 0
        /\ prefs[kPrefsNumReboots] = Stored(0)
        /\ prefs[kPrefsUpdateTimestampStart] = Absent
        /\ prefs[kPrefsUpdateDurationUptime] = Absent
        /\ LET s == DoInitialize([Now EXCEPT !.o = Constructed])
           IN  /\ s.o.update_timestamp_start_ = wall
               /\ s.o.update_duration_uptime_ = 0

\* UpdateSucceeded() acted on an attempt that had downloaded bytes and whose
\* start timestamp is not the current time
C25_Witness ==
    /\ last.op = "UpdateSucceeded"
    /\ \E src \in DownloadSources :
          /\ last.pre.current_bytes_downloaded_[src] > 0
          /\ last.pre.total_bytes_downloaded_[src] > 0
    /\ last.pre.update_timestamp_start_ # wall

\* the samples of a metric among those the last operation sent, in order
SamplesOf(metric) ==
    LET sent == SelectSeq(uma, LAMBDA m : m.metric = metric)
    IN  [i \in 1..Len(sent) |-> sent[i].sample]

SuccessfulMiBs(src) == last.pre.current_bytes_downloaded_[src] \div kNumBytesInOneMiB

TotalMiBs(src) == last.pre.total_bytes_downloaded_[src] \div kNumBytesInOneMiB

C27_Original ==
    last.op = "UpdateSucceeded" =>
        LET successful == SuccessfulMiBs(kDownloadSourceHttpsServer)
                            + SuccessfulMiBs(kDownloadSourceHttpServer)
            total == TotalMiBs(kDownloadSourceHttpsServer)
                       + TotalMiBs(kDownloadSourceHttpServer)
            sent == SamplesOf(<<"Installer.DownloadOverheadPercentage">>)
        IN  /\ (sent # <<>>) <=> (successful > 0)
            /\ successful > 0 =>
                  /\ sent = <<TruncDiv((total - successful) * 100, successful)>>
                  /\ sent[1] >= 0

\* the member that Initialize() loads from an entry of CounterKeys
CounterLoaded(key) ==
    CASE key = kPrefsPayloadAttemptNumber -> ps.payload_attempt_number_
      [] key = kPrefsCurrentUrlIndex -> ps.url_index_
      [] key = kPrefsCurrentUrlFailureCount -> ps.url_failure_count_
      [] key = kPrefsUrlSwitchCount -> ps.url_switch_count_
      [] key = kPrefsNumReboots -> ps.num_reboots_
      [] OTHER ->
           LET src == CHOOSE s \in DownloadSources :
                         key \in { GetPrefsKey(kPrefsCurrentBytesDownloaded, s),
                                   GetPrefsKey(kPrefsTotalBytesDownloaded, s) }
           IN  IF key = GetPrefsKey(kPrefsCurrentBytesDownloaded, src)
                 THEN ps.current_bytes_downloaded_[src]
                 ELSE ps.total_bytes_downloaded_[src]

\* C28: Initialize() loads 0 for every integer counter whose entry in the
\* store is missing, is not an integer or is negative, loads the entry
\* otherwise, and stores what it loaded.
C28_BadCountersLoadAsZero ==
    last.op = "RestartOverStore" =>
        \A key \in CounterKeys :
           LET found == last.store[key]
               value == IF found.ex /\ found.ok /\ found.v >= 0 THEN found.v ELSE 0
           IN  /\ CounterLoaded(key) = value
               /\ prefs[key] = Stored(value)

\* Initialize() found every counter negative, and the completed state is
\* all zero
C28_Witness ==
    /\ last.op = "RestartOverStore"
    /\ \A key \in CounterKeys :
          /\ last.store[key] = Stored(-1)
          /\ CounterLoaded(key) = 0
    /\ last.pre.payload_attempt_number_ > 0
    /\ last.pre.url_index_ > 0

\* C29: Initialize() loads a null backoff expiry when the stored expiry is
\* more than kMaxBackoffDays after the current time, and loads the stored
\* expiry as it is otherwise.
C29_FarExpiryLoadsAsNull ==
    last.op = "RestartOverStore" =>
        LET found == last.store[kPrefsBackoffExpiryTime]
        IN  (found.ex /\ found.ok) =>
               /\ found.v > wall + kMaxBackoffDays * kSecondsPerDay =>
                     ps.backoff_expiry_time_ = 0
               /\ found.v <= wall + kMaxBackoffDays * kSecondsPerDay =>
                     ps.backoff_expiry_time_ = found.v
               /\ prefs[kPrefsBackoffExpiryTime] = Stored(ps.backoff_expiry_time_)

\* Initialize() found an expiry one second past kMaxBackoffDays ahead
C29_Witness ==
    /\ last.op = "RestartOverStore"
    /\ last.store[kPrefsBackoffExpiryTime] =
          Stored(wall + kMaxBackoffDays * kSecondsPerDay + 1)
    /\ last.pre.backoff_expiry_time_ # 0
    /\ ps.backoff_expiry_time_ = 0

\* C30: Initialize() starts the update at the current time when the stored
\* start is missing, is not an integer or is more than kDurationSlack after the
\* current time, and at the stored start otherwise; afterwards the start is
\* at most kDurationSlack after the current time.
C30_FutureStartLoadsAsNow ==
    last.op = "RestartOverStore" =>
        LET found == last.store[kPrefsUpdateTimestampStart]
        IN  /\ ps.update_timestamp_start_ =
                  IF found.ex /\ found.ok /\ found.v <= wall + kDurationSlack
                    THEN found.v ELSE wall
            /\ ps.update_timestamp_start_ <= wall + kDurationSlack
            /\ prefs[kPrefsUpdateTimestampStart] = Stored(ps.update_timestamp_start_)

\* Initialize() found a start one second past kDurationSlack ahead, on a day
\* other than the one the attempt started
C30_Witness ==
    /\ last.op = "RestartOverStore"
    /\ last.store[kPrefsUpdateTimestampStart] = Stored(wall + kDurationSlack + 1)
    /\ last.pre.update_timestamp_start_ # wall
    /\ ps.update_timestamp_start_ = wall

\* C31 as stated: when Initialize() finds a stored uptime that exceeds the
\* wall-clock time since the start of the update by more than kDurationSlack,
\* the uptime becomes that wall-clock time; a stored uptime within the slack
\* is loaded as it is.
C31_Original ==
    [][ ( \/ ~initialized /\ initialized'
          \/ steps' # steps /\ last'.op = "Restart" )
        => LET found == prefs[kPrefsUpdateDurationUptime]
               stored_delta == IF found.ex /\ found.ok THEN found.v ELSE 0
               duration == wall' - ps'.update_timestamp_start_
           IN  ps'.update_duration_uptime_ =
                  IF stored_delta > duration + kDurationSlack
                    THEN duration ELSE stored_delta
      ]_vars

\* C32: at one reading of the clocks, ResetPersistedState() applied twice
\* leaves the object and the store as ResetPersistedState() applied once.
C32_ResetIsIdempotent ==
    initialized =>
        LET once == ResetPersistedState(Now)
        IN  ResetPersistedState(once) = once

\* an attempt with a backoff running, on its second URL, on which a reset
\* changes the object and the store
C32_Witness ==
    /\ initialized
    /\ ps.payload_attempt_number_ > 0
    /\ ps.backoff_expiry_time_ # 0
    /\ ps.url_index_ > 0
    /\ ps.update_timestamp_start_ # wall
    /\ ResetPersistedState(Now).o # ps
    /\ ResetPersistedState(Now).p # prefs

\* C33: DownloadProgress(n) with n > 0 adds to the uptime the monotonic time
\* since update_duration_uptime_timestamp_ and moves that timestamp to the
\* current monotonic time; Initialize() and a SetResponse() that resets the
\* state move the timestamp to the current monotonic time, so a new process
\* never has more uptime than the one before it; and between them no
\* operation lowers the uptime.
C33_UptimeCountsSinceTimestamp ==
    /\ initialized => ps.update_duration_uptime_timestamp_ <= mono
    /\ (last.op = "DownloadProgress" /\ last.count > 0) =>
          /\ ps.update_duration_uptime_ =
                last.pre.update_duration_uptime_
                   + (mono - last.pre.update_duration_uptime_timestamp_)
          /\ ps.update_duration_uptime_timestamp_ = mono
          /\ prefs[kPrefsUpdateDurationUptime] = Stored(ps.update_duration_uptime_)
    /\ last.op \in {"Initialize", "Restart", "Reboot"} =>
          ps.update_duration_uptime_timestamp_ = mono
    /\ last.op \in {"Restart", "Reboot"} =>
          ps.update_duration_uptime_ <= last.pre.update_duration_uptime_
    /\ ( /\ last.op = "SetResponse"
         /\ \/ last.changed
            \/ last.pre.url_index_ >= Len(last.response.payload_urls) ) =>
          /\ ps.update_duration_uptime_timestamp_ = mono
          /\ ps.update_duration_uptime_ = 0
    /\ last.op \in (PublicOperations \ {"Initialize", "SetResponse"}) =>
          ps.update_duration_uptime_ >= last.pre.update_duration_uptime_

\* a process started a day after the clock began, and a day later received
\* bytes: only the second day is added to the uptime
C33_Witness ==
    /\ last.op = "DownloadProgress"
    /\ last.count > 0
    /\ last.pre.update_duration_uptime_timestamp_ > 0
    /\ mono > last.pre.update_duration_uptime_timestamp_
    /\ ps.update_duration_uptime_ =
          mono - last.pre.update_duration_uptime_timestamp_
    /\ ps.update_duration_uptime_ < mono

\* C34: whenever the object holds a response with at least one URL, the
\* current download source is the one that the scheme of the URL at the URL
\* index stands for; while it holds no response, from Initialize() to the
\* first SetResponse(), the current download source is kNumDownloadSources.
C34_SourceFollowsCurrentUrl ==
    initialized =>
        /\ Len(Urls) > 0 =>
              /\ ps.url_index_ < Len(Urls)
              /\ ps.current_download_source_ = SourceOfUrl(Urls[ps.url_index_ + 1])
        /\ ~HasResponse => ps.current_download_source_ = kDownloadSourceNone

\* a failure moved the attempt from the https URL to the URL with the
\* upper-case HTTP scheme
C34_Witness ==
    /\ last.op = "UpdateFailed"
    /\ last.pre.current_download_source_ = kDownloadSourceHttpsServer
    /\ ps.url_index_ = 1
    /\ Urls[2] = UrlB
    /\ ps.current_download_source_ = kDownloadSourceHttpServer

\* C35: SetResponse() with a response whose signature is the stored one, the
\* URL index being below the number of its URLs, changes nothing in the
\* store and nothing in the object but the response it holds and the current
\* download source, which becomes the one of the URL at the URL index.
C35_SameResponseKeepsState ==
    [][ ( /\ steps' # steps
          /\ last'.op = "SetResponse"
          /\ ~last'.changed
          /\ ps.url_index_ < Len(last'.response.payload_urls) )
        => /\ ps' = [ps EXCEPT
                        !.response_ = last'.response,
                        !.current_download_source_ =
                            SourceOfUrl(last'.response.payload_urls[ps.url_index_ + 1])]
           /\ prefs' = prefs
      ]_vars

\* a new process loaded an attempt in progress and was given its response
\* again: the attempt is kept and the download source is known again
C35_Witness ==
    /\ last.op = "SetResponse"
    /\ ~last.changed
    /\ last.pre.url_index_ < Len(Urls)
    /\ last.pre.payload_attempt_number_ > 0
    /\ last.pre.backoff_expiry_time_ # 0
    /\ last.pre.current_download_source_ = kDownloadSourceNone
    /\ ps.current_download_source_ # kDownloadSourceNone
    /\ ps.payload_attempt_number_ = last.pre.payload_attempt_number_
    /\ ps.backoff_expiry_time_ = last.pre.backoff_expiry_time_

\* C36: from URL index 0 and failure count 0 on a non-delta response with n
\* URLs and k failures allowed per URL, a run of transient failures shorter
\* than n * k leaves the payload attempt number as it was and stands at URL
\* run div k with failure count run mod k; the run of n * k failures is back
\* at URL 0 with failure count 0 and has added 1 to the payload attempt number.
C36_FailureRunWrapsOnce ==
    LET n == Len(Urls)
        k == ps.response_.max_failure_count_per_url
    IN  last.run <= n * k =>
           IF last.run < n * k
             THEN /\ ps.payload_attempt_number_ = last.from
                  /\ ps.url_index_ = last.run \div k
                  /\ ps.url_failure_count_ = last.run % k
             ELSE /\ ps.payload_attempt_number_ = last.from + 1
                  /\ ps.url_index_ = 0
                  /\ ps.url_failure_count_ = 0

\* the fourth transient failure in a row on the response with two URLs and
\* two failures allowed per URL
C36_Witness ==
    /\ last.run = 4
    /\ Len(Urls) = 2
    /\ ps.response_.max_failure_count_per_url = 2
    /\ last.pre.url_index_ = 1
    /\ last.pre.url_failure_count_ = 1
    /\ ps.url_index_ = 0
    /\ ps.payload_attempt_number_ = last.from + 1

\* C37 as stated: when a new process runs Initialize() right after
\* UpdateBackoffExpiryTime() stored an expiry, at the same wall-clock time,
\* it loads that expiry as it was stored.
C37_Original ==
    [][ ( /\ last.op = "UpdateBackoffExpiryTime"
          /\ steps' # steps
          /\ last'.op = "Restart" )
        => ps'.backoff_expiry_time_ = ps.backoff_expiry_time_
      ]_vars

\* C38: UpdateSucceeded() leaves the response signature, the URL index, the
\* URL failure count, the URL switch count, the payload attempt number and
\* the backoff expiry as they were, and ShouldBackoffDownload() answers after
\* it as it would have answered before it.
C38_SucceededKeepsAttempt ==
    last.op = "UpdateSucceeded" =>
        /\ ps.response_ = last.pre.response_
        /\ ps.response_signature_ = last.pre.response_signature_
        /\ ps.url_index_ = last.pre.url_index_
        /\ ps.url_failure_count_ = last.pre.url_failure_count_
        /\ ps.url_switch_count_ = last.pre.url_switch_count_
        /\ ps.payload_attempt_number_ = last.pre.payload_attempt_number_
        /\ ps.backoff_expiry_time_ = last.pre.backoff_expiry_time_
        /\ prefs[kPrefsUrlSwitchCount] = Stored(ps.url_switch_count_)
        /\ \A official \in BOOLEAN :
              ShouldBackoffDownload(Now, official) =
                 ShouldBackoffDownload([Now EXCEPT !.o = last.pre], official)

\* UpdateSucceeded() ran on an attempt that had switched URL and is backing off
C38_Witness ==
    /\ last.op = "UpdateSucceeded"
    /\ last.pre.url_switch_count_ > 0
    /\ last.pre.payload_attempt_number_ > 0
    /\ ShouldBackoffDownload(Now, TRUE)

\* C39 as stated: in every state reached from an empty store the total byte
\* counter of each source is at least its current byte counter, and the total
\* MiBs that UpdateSucceeded() sums are at least the successful MiBs.
C39_Original ==
    initialized =>
        /\ \A src \in DownloadSources :
              ps.total_bytes_downloaded_[src] >= ps.current_bytes_downloaded_[src]
        /\ last.op = "UpdateSucceeded" =>
              TotalMiBs(kDownloadSourceHttpsServer) + TotalMiBs(kDownloadSourceHttpServer)
                 >= SuccessfulMiBs(kDownloadSourceHttpsServer)
                       + SuccessfulMiBs(kDownloadSourceHttpServer)

\* the member of the object that an entry of the store is written from
MemberOf(key) ==
    CASE key = kPrefsCurrentResponseSignature -> ps.response_signature_
      [] key = kPrefsBackoffExpiryTime -> ps.backoff_expiry_time_
      [] key = kPrefsUpdateTimestampStart -> ps.update_timestamp_start_
      [] key = kPrefsUpdateDurationUptime -> ps.update_duration_uptime_
      [] OTHER -> CounterLoaded(key)

\* C40 as stated: after every operation each entry that is present in the
\* store holds the value of its member of the object, and a second
\* Initialize() at the same clock reading changes neither the object nor the
\* store.
C40_Original ==
    initialized =>
        /\ \A key \in PrefsKeys :
              prefs[key].ex => prefs[key] = Stored(MemberOf(key))
        /\ last.op \in {"Initialize", "Restart", "Reboot", "RestartOverStore"} =>
              DoInitialize(Now) = Now

\* C40 amended: after every operation each entry of the store that can be
\* read holds the value of its member of the object; the only entries that
\* cannot be read are a backoff expiry and a response signature that
\* Initialize() found so and left in place, their members being null and
\* empty; and a second Initialize() at the same clock reading changes
\* neither the object nor the store.
C40_StoreMatchesObject ==
    initialized =>
        /\ \A key \in PrefsKeys :
              /\ (prefs[key].ex /\ prefs[key].ok) =>
                    prefs[key] = Stored(MemberOf(key))
              /\ (prefs[key].ex /\ ~prefs[key].ok) =>
                    \/ /\ key = kPrefsBackoffExpiryTime
                       /\ ps.backoff_expiry_time_ = 0
                    \/ /\ key = kPrefsCurrentResponseSignature
                       /\ ps.response_signature_ = <<>>
        /\ last.op \in {"Initialize", "Restart", "Reboot", "RestartOverStore"} =>
              DoInitialize(Now) = Now

\* Initialize() found a backoff expiry that cannot be read where the process
\* before it had one stored, and wrote every other entry back
C40_Witness ==
    /\ last.op = "RestartOverStore"
    /\ last.pre.backoff_expiry_time_ # 0
    /\ last.store[kPrefsBackoffExpiryTime] = Unreadable
    /\ prefs[kPrefsBackoffExpiryTime] = Unreadable
    /\ ps.backoff_expiry_time_ = 0
    /\ prefs[kPrefsPayloadAttemptNumber] = Stored(ps.payload_attempt_number_)
    /\ ps.payload_attempt_number_ > 0

====
